---- MODULE Spec2Model ----
(***************************************************************************)
(* Model of backend/app/services/game_logic.py (class GameSession): the    *)
(* session constructor, role assignment, the policy deck (initialise,      *)
(* draw, reshuffle), the first term, chancellor eligibility and the        *)
(* snapshots (serialize_state, deserialize_state).                         *)
(*                                                                         *)
(* A GameSession object is a record; every method is an operator from a    *)
(* session (and its inputs) to a result record [err, s, ...] where err     *)
(* says that the method raised and s is the session after the call.        *)
(* random.shuffle is a choice among a bounded family of permutations.      *)
(* uuid.UUID values are naturals; str(uuid) is the pair <<"str", u>>.      *)
(***************************************************************************)
EXTENDS Integers, Sequences, FiniteSets, TLC

VARIABLES session, hand, last, clock, shuffles

\* the dict last returned by serialize_state as it is now (snapshot) and as it
\* was returned (snapshot0), the session last built from it by
\* deserialize_state (restored), and the attributes whose list or dict object
\* the live session (aliases.live) or the restored session (aliases.restored)
\* shares with the dict
VARIABLES snapshot, snapshot0, restored, aliases

snapshotVars == <<snapshot, snapshot0, restored, aliases>>

\* the server: game_manager.active_games, the rows of the "games" table, the
\* Socket.IO session of every connected sid, the members of the rooms, the
\* messages emitted by the last step and the event handlers that are running;
\* the rows of the "game_lobbies" table, and the sids that have disconnected
\* with the user id their session held
VARIABLES active_games, games_table, sio_sessions, rooms, emitted, tasks
VARIABLES lobbies_table, closed

serverVars ==
    <<active_games, games_table, sio_sessions, rooms, emitted, tasks,
      lobbies_table, closed>>

sessionVars == <<session, hand, last, clock, shuffles>>

vars == <<sessionVars, snapshotVars, serverVars>>

(***************************************************************************)
(* Bounds of the model.                                                    *)
(***************************************************************************)
\* player_ids lists of length 0..MaxListLen are offered to the constructor
MaxListLen == 16
\* random.shuffle picks one of ShuffleChoices permutations
ShuffleChoices == 2
\* draw_policies is called with count in 1..MaxDrawCount
MaxDrawCount == 3
\* the deck is shuffled (initialised or reshuffled) at most MaxDeckShuffles times
MaxDeckShuffles == 2
\* a caller holds at most MaxHand drawn cards at a time
MaxHand == 3
\* chancellor eligibility is explored for 5..MaxEligiblePlayers players
MaxEligiblePlayers == 6
\* with at most MaxExecuted executed players
MaxExecuted == 2
\* datetime.now() gives 0..MaxClock
MaxClock == 1
\* uuid.uuid4() gives start_game one of MaxGames new game ids
MaxGames == 2

(***************************************************************************)
(* Program constants.                                                      *)
(***************************************************************************)
MinPlayers == 5
MaxPlayers == 15
\* above this population the last president is term-limited too
SmallGameSize == 5
\* XL decks: the larger deck is used above this population
XLSmallDeckMaxPlayers == 9

\* Python's None: no identifier and no index is negative
None == -1

GameModes == {"Normal", "XL"}

\* class GamePhase
LOBBY == "lobby"
STARTING == "starting"
NOMINATION == "nomination"
VOTING == "voting"
LEGISLATIVE_PRESIDENT_DISCARD == "legislative_president_discard"
LEGISLATIVE_CHANCELLOR_ENACT == "legislative_chancellor_enact"
EXECUTIVE_ACTION == "executive_action"
POST_ACTION == "post_action"
FINISHED == "finished"

GamePhases ==
    {LOBBY, STARTING, NOMINATION, VOTING, LEGISLATIVE_PRESIDENT_DISCARD,
     LEGISLATIVE_CHANCELLOR_ENACT, EXECUTIVE_ACTION, POST_ACTION, FINISHED}

PolicyKinds ==
    {"Liberal", "Fascist", "Communist", "Anarchist", "Anti Fascist", "Anti Communist"}

RoleLabels ==
    {"Liberal", "Fascist", "Communist", "Capitalist", "Anarchist", "Monarchist", "Hitler"}

(***************************************************************************)
(* Python helpers.                                                         *)
(***************************************************************************)
Max(a, b) == IF a >= b THEN a ELSE b

\* ["x"] * n
Repeat(x, n) == [i \in 1..n |-> x]

\* list.count(x)
Count(seq, x) == Cardinality({i \in 1..Len(seq) : seq[i] = x})

\* seq[:n] and seq[n:] for 0 <= n
Take(seq, n) == SubSeq(seq, 1, IF n <= Len(seq) THEN n ELSE Len(seq))
Drop(seq, n) == SubSeq(seq, (IF n <= Len(seq) THEN n ELSE Len(seq)) + 1, Len(seq))

Reverse(seq) == [i \in 1..Len(seq) |-> seq[Len(seq) + 1 - i]]

Rotate(seq, k) ==
    IF Len(seq) = 0 THEN seq
    ELSE [i \in 1..Len(seq) |-> seq[((i - 1 + k) % Len(seq)) + 1]]

\* random.shuffle(seq): the k-th permutation of a bounded family
\* (k = 0 identity, k = 1 reversal, k = 2 rotation by one, ...)
Shuffle(seq, k) ==
    IF k % 2 = 0 THEN Rotate(seq, k \div 2) ELSE Reverse(Rotate(seq, k \div 2))

ShuffleKeys == 0..(ShuffleChoices - 1)

\* str(uuid) and uuid.UUID(str): the string of the identifier u is the code
\* StrBase + u, above every identifier, so that a string, an identifier and
\* None can be told apart
StrBase == 100
UuidToStr(u) == StrBase + u
StrToUuid(str) == str - StrBase

\* datetime.isoformat() and datetime.fromisoformat(str)
IsoFormat(t) == <<"iso", t>>
FromIsoFormat(str) == str[2]

\* dict(zip(keys, values)): zip stops at the shorter list
ZipDict(keys, values) ==
    LET m == IF Len(keys) <= Len(values) THEN Len(keys) ELSE Len(values)
    IN  [p \in {keys[i] : i \in 1..m} |->
            values[CHOOSE i \in 1..m : keys[i] = p /\ \A j \in (i+1)..m : keys[j] # p]]

(***************************************************************************)
(* GameSession.__init__                                                    *)
(***************************************************************************)
NoSession == [none |-> TRUE]

NewSession(game_id, player_ids, game_mode, now) ==
    [ game_id |-> game_id,
      initial_player_ids |-> player_ids,
      players |-> player_ids,
      mode |-> game_mode,
      created_at |-> now,
      updated_at |-> now,
      status |-> STARTING,
      roles |-> <<>>,
      policies |-> <<>>,
      discard_pile |-> <<>>,
      enacted_policies |-> [k \in PolicyKinds |-> 0],
      liberal_track_bonuses_used |-> Repeat(FALSE, 5),
      fascist_track_bonuses_used |-> Repeat(FALSE, 6),
      communist_track_bonuses_used |-> Repeat(FALSE, 6),
      state |-> STARTING,
      president_index |-> None,
      president_id |-> None,
      chancellor_candidate_id |-> None,
      chancellor_id |-> None,
      votes |-> <<>>,
      election_tracker |-> 0,
      last_government |-> [president |-> None, chancellor |-> None],
      policies_drawn_for_legislative |-> <<>>,
      policies_for_chancellor |-> <<>>,
      executed_players |-> <<>>,
      player_connections |-> <<>>,
      anarchy_execution_available |-> TRUE,
      propaganda_used_this_round |-> FALSE,
      vonc_available_this_round |-> TRUE ]

\* faulty variant: the upper limit is exclusive
ValidPlayerCountExclusive(n) == MinPlayers <= n /\ n < MaxPlayers

ValidPlayerCount(n) == MinPlayers <= n /\ n <= MaxPlayers

\* the constructor: raises ValueError, creating nothing, unless 5 <= len <= 15
GameSessionInit(game_id, player_ids, game_mode, now) ==
    IF ~ValidPlayerCount(Len(player_ids))
    THEN [err |-> TRUE, s |-> NoSession]
    ELSE [err |-> FALSE, s |-> NewSession(game_id, player_ids, game_mode, now)]

TouchUpdatedAt(s, now) == [s EXCEPT !.updated_at = now]

(***************************************************************************)
(* GameSession.assign_roles                                                *)
(***************************************************************************)
\* faulty variant: the "- 1" of the formula is lost
NormalFascistCountNoDecrement(n) == Max(1, (n - 1) \div 2)

NormalFascistCount(n) == Max(1, ((n - 1) \div 2) - 1)

\* faulty variant: Hitler's seat is not set aside
NormalLiberalCountNoHitlerSeat(n) == n - NormalFascistCount(n)

NormalLiberalCount(n) == n - NormalFascistCount(n) - 1

\* faulty variant: the division by 3 is lost
XLFascistCountUndivided(n) == IF n >= 5 THEN Max(1, n - 3) ELSE 0

XLFascistCount(n) == IF n >= 5 THEN Max(1, (n - 3) \div 3) ELSE 0
XLCommunistCount(n) == IF n >= 5 THEN Max(1, n \div 4) ELSE 0
XLCapitalistCount(n) == IF n > 10 THEN 1 ELSE 0
\* faulty variant: the Capitalist's threshold is used for the Anarchist
XLAnarchistCountLate(n) == IF n > 10 THEN 1 ELSE 0

XLAnarchistCount(n) == IF n > 9 THEN 1 ELSE 0
XLMonarchistCount(n) == IF n > 12 THEN 1 ELSE 0
XLLiberalCount(n) ==
    n - (XLFascistCount(n) + XLCommunistCount(n) + XLCapitalistCount(n)
         + XLAnarchistCount(n) + XLMonarchistCount(n) + 1)

RolesToAssign(game_mode, n) ==
    IF game_mode = "Normal"
    THEN Repeat("Liberal", NormalLiberalCount(n)) \o Repeat("Fascist", NormalFascistCount(n))
         \o <<"Hitler">>
    ELSE Repeat("Liberal", XLLiberalCount(n)) \o Repeat("Fascist", XLFascistCount(n))
         \o Repeat("Communist", XLCommunistCount(n))
         \o Repeat("Capitalist", XLCapitalistCount(n))
         \o Repeat("Anarchist", XLAnarchistCount(n))
         \o Repeat("Monarchist", XLMonarchistCount(n))
         \o <<"Hitler">>

\* faulty variant: the players are shuffled in place, not a copy of them
assign_roles_shuffling_players(s, k1, k2, now) ==
    LET n == Len(s.players)
    IN  IF n = 0 THEN [err |-> TRUE, s |-> s]
        ELSE IF s.mode \notin GameModes THEN [err |-> TRUE, s |-> s]
        ELSE IF s.mode = "XL" /\ XLLiberalCount(n) < 0 THEN [err |-> TRUE, s |-> s]
        ELSE IF Len(RolesToAssign(s.mode, n)) # n THEN [err |-> TRUE, s |-> s]
        ELSE [err |-> FALSE,
              s |-> TouchUpdatedAt(
                      [s EXCEPT !.players = Shuffle(s.players, k2),
                                !.roles = ZipDict(Shuffle(s.players, k2),
                                                  Shuffle(RolesToAssign(s.mode, n), k1))],
                      now)]

\* k1 shuffles the role list, k2 the players
assign_roles(s, k1, k2, now) ==
    LET n == Len(s.players)
    IN  IF n = 0 THEN [err |-> TRUE, s |-> s]
        ELSE IF s.mode \notin GameModes THEN [err |-> TRUE, s |-> s]
        ELSE IF s.mode = "XL" /\ XLLiberalCount(n) < 0 THEN [err |-> TRUE, s |-> s]
        ELSE IF Len(RolesToAssign(s.mode, n)) # n THEN [err |-> TRUE, s |-> s]
        ELSE [err |-> FALSE,
              s |-> TouchUpdatedAt(
                      [s EXCEPT !.roles = ZipDict(Shuffle(s.players, k2),
                                                  Shuffle(RolesToAssign(s.mode, n), k1))],
                      now)]

(***************************************************************************)
(* GameSession.initialize_deck, _reshuffle_deck, draw_policies             *)
(***************************************************************************)
NormalDeck == Repeat("Liberal", 6) \o Repeat("Fascist", 11)

XLSmallDeck == Repeat("Communist", 8) \o Repeat("Liberal", 6) \o Repeat("Fascist", 9)

XLLargeDeck ==
    Repeat("Anti Fascist", 1) \o Repeat("Anti Communist", 1) \o Repeat("Communist", 7)
    \o Repeat("Liberal", 6) \o Repeat("Fascist", 9) \o Repeat("Anarchist", 2)

\* the unshuffled deck of a mode and population
DeckFor(game_mode, n) ==
    IF game_mode = "Normal" THEN NormalDeck
    ELSE IF n <= XLSmallDeckMaxPlayers THEN XLSmallDeck ELSE XLLargeDeck

\* faulty variant: the discard pile is not emptied
initialize_deck_keeping_discard(s, k, now) ==
    IF s.mode \notin GameModes THEN [err |-> TRUE, s |-> s]
    ELSE [err |-> FALSE,
          s |-> TouchUpdatedAt(
                  [s EXCEPT !.policies = Shuffle(DeckFor(s.mode, Len(s.players)), k)],
                  now)]

initialize_deck(s, k, now) ==
    IF s.mode \notin GameModes THEN [err |-> TRUE, s |-> s]
    ELSE [err |-> FALSE,
          s |-> TouchUpdatedAt(
                  [s EXCEPT !.policies = Shuffle(DeckFor(s.mode, Len(s.players)), k),
                            !.discard_pile = <<>>],
                  now)]

\* faulty variant: the discard pile is not emptied after it is shuffled in
reshuffle_deck_keeping_discard(s, k, now) ==
    IF Len(s.discard_pile) = 0 THEN [err |-> TRUE, s |-> s]
    ELSE [err |-> FALSE,
          s |-> TouchUpdatedAt(
                  [s EXCEPT !.policies = Shuffle(s.policies \o s.discard_pile, k)],
                  now)]

\* faulty variant: the discard pile replaces the draw pile instead of extending it
reshuffle_deck_replacing_deck(s, k, now) ==
    IF Len(s.discard_pile) = 0 THEN [err |-> TRUE, s |-> s]
    ELSE [err |-> FALSE,
          s |-> TouchUpdatedAt(
                  [s EXCEPT !.policies = Shuffle(s.discard_pile, k),
                            !.discard_pile = <<>>],
                  now)]

reshuffle_deck(s, k, now) ==
    IF Len(s.discard_pile) = 0 THEN [err |-> TRUE, s |-> s]
    ELSE [err |-> FALSE,
          s |-> TouchUpdatedAt(
                  [s EXCEPT !.policies = Shuffle(s.policies \o s.discard_pile, k),
                            !.discard_pile = <<>>],
                  now)]

NeedsReshuffle(s, count) == Len(s.policies) < count

\* faulty variant: only an empty discard pile stops the draw
CannotDrawOnlyIfNoDiscard(s, count) == Len(s.discard_pile) = 0

CannotDraw(s, count) == Len(s.policies) + Len(s.discard_pile) < count

\* faulty variant: the cards are taken from the bottom of the pile
DrawnFromBottom(policies, count) ==
    SubSeq(policies, Len(policies) - count + 1, Len(policies))

\* faulty variant: the top card is returned count times
DrawnRepeatingTop(policies, count) == [i \in 1..count |-> policies[1]]

\* self.policies[:count] and self.policies[count:]
Drawn(policies, count) == Take(policies, count)
Remaining(policies, count) == Drop(policies, count)

\* the result also carries the returned list and the number of reshuffles made
draw_policies(s, count, k, now) ==
    LET failed == [err |-> TRUE, s |-> s, drawn |-> <<>>, reshuffles |-> 0]
        take(t, n) ==
            [err |-> FALSE,
             s |-> TouchUpdatedAt([t EXCEPT !.policies = Remaining(t.policies, count)], now),
             drawn |-> Drawn(t.policies, count),
             reshuffles |-> n]
    IN  IF NeedsReshuffle(s, count)
        THEN IF CannotDraw(s, count) THEN failed
             ELSE LET r == reshuffle_deck(s, k, now)
                  IN  IF r.err THEN failed ELSE take(r.s, 1)
        ELSE take(s, 0)

(***************************************************************************)
(* GameSession.get_eligible_chancellor_candidates                          *)
(***************************************************************************)
Range(seq) == {seq[i] : i \in 1..Len(seq)}

\* the truthy values among vals (None is falsy)
Truthy(vals) == {v \in vals : v # None}

\* faulty variant: executed players are not filtered out
IneligibleWithoutExecuted(s) ==
    {s.president_id}
    \cup (IF Len(s.players) > SmallGameSize
          THEN Truthy({s.last_government.president, s.last_government.chancellor})
          ELSE Truthy({s.last_government.chancellor}))

Ineligible(s) ==
    {s.president_id}
    \cup (IF Len(s.players) > SmallGameSize
          THEN Truthy({s.last_government.president, s.last_government.chancellor})
          ELSE Truthy({s.last_government.chancellor}))
    \cup Range(s.executed_players)

IsEligible(s, p) == p \notin Ineligible(s)

get_eligible_chancellor_candidates(s) ==
    IF s.president_id = None THEN <<>>
    ELSE LET keep == SelectSeq(s.players, LAMBDA p : IsEligible(s, p))
         IN  [i \in 1..Len(keep) |-> UuidToStr(keep[i])]

(***************************************************************************)
(* GameSession.start_game_flow                                             *)
(***************************************************************************)
NoEvent == [event |-> "none"]

\* faulty variant: the call is refused only when both the roles and the deck
\* are missing
start_game_flow_unless_both_missing(s, now) ==
    IF DOMAIN s.roles = {} /\ Len(s.policies) = 0
    THEN [err |-> TRUE, s |-> s, event |-> NoEvent]
    ELSE LET t == TouchUpdatedAt(
                    [s EXCEPT !.president_index = 0,
                              !.president_id = s.players[1],
                              !.state = NOMINATION],
                    now)
         IN  [err |-> FALSE, s |-> t,
              event |-> [event |-> "election_started",
                         data |-> [president_id |-> UuidToStr(t.president_id),
                                   eligible_chancellors |->
                                       get_eligible_chancellor_candidates(t)]]]

\* faulty variant: the new phase is also written to the status attribute,
\* and the candidates are computed before the president is set
start_game_flow_setting_status(s, now) ==
    IF DOMAIN s.roles = {} \/ Len(s.policies) = 0
    THEN [err |-> TRUE, s |-> s, event |-> NoEvent]
    ELSE LET t == TouchUpdatedAt(
                    [s EXCEPT !.president_index = 0,
                              !.president_id = s.players[1],
                              !.state = NOMINATION,
                              !.status = NOMINATION],
                    now)
         IN  [err |-> FALSE, s |-> t,
              event |-> [event |-> "election_started",
                         data |-> [president_id |-> UuidToStr(t.president_id),
                                   eligible_chancellors |->
                                       get_eligible_chancellor_candidates(s)]]]

\* players[0] of the code is players[1] here: sequences start at 1
start_game_flow(s, now) ==
    IF DOMAIN s.roles = {} \/ Len(s.policies) = 0
    THEN [err |-> TRUE, s |-> s, event |-> NoEvent]
    ELSE LET t == TouchUpdatedAt(
                    [s EXCEPT !.president_index = 0,
                              !.president_id = s.players[1],
                              !.state = NOMINATION],
                    now)
         IN  [err |-> FALSE, s |-> t,
              event |-> [event |-> "election_started",
                         data |-> [president_id |-> UuidToStr(t.president_id),
                                   eligible_chancellors |->
                                       get_eligible_chancellor_candidates(t)]]]

(***************************************************************************)
(* GameSession.serialize_state and deserialize_state.  The type tests of   *)
(* the code (isinstance) are decided by the attribute that holds the value *)
(* and by whether the value is None.                                       *)
(***************************************************************************)
\* attributes holding a uuid.UUID or None
UuidFields == {"game_id", "president_id", "chancellor_candidate_id", "chancellor_id"}
\* attributes holding a datetime
DatetimeFields == {"created_at", "updated_at"}
\* attributes holding a list of uuid.UUID
UuidListFields == {"initial_player_ids", "players", "executed_players"}
\* attributes holding a dict, and those among them keyed by uuid.UUID
DictFields == {"roles", "enacted_policies", "votes", "last_government", "player_connections"}
UuidKeyedFields == {"roles", "votes", "player_connections"}

\* faulty variant: the whole __dict__ is serialised
SnapshotKeysAll(s) == DOMAIN s

\* state = self.__dict__.copy(); del state['player_connections']
SnapshotKeys(s) == DOMAIN s \ {"player_connections"}

\* new_dict[new_k] = new_v for every item of the dict d
SerializeDict(key, d) ==
    LET new_k(k) == IF key \in UuidKeyedFields THEN UuidToStr(k) ELSE k
        new_v(v) == IF key = "last_government" /\ v # None THEN UuidToStr(v) ELSE v
    IN  [k2 \in {new_k(k) : k \in DOMAIN d} |->
            new_v(d[CHOOSE k \in DOMAIN d : new_k(k) = k2])]

\* one turn of the loop over state.items()
SerializeValue(key, value) ==
    IF key \in UuidFields /\ value # None THEN UuidToStr(value)
    ELSE IF key \in DatetimeFields THEN IsoFormat(value)
    ELSE IF key \in UuidListFields /\ Len(value) > 0
         THEN [i \in 1..Len(value) |-> UuidToStr(value[i])]
    ELSE IF key \in DictFields THEN SerializeDict(key, value)
    ELSE value

\* faulty variant: the bindings are deleted in the session, not in the copy of
\* its dict
serialize_state_clearing_connections(s, now) ==
    LET t == [TouchUpdatedAt(s, now) EXCEPT !.player_connections = <<>>]
    IN  [s |-> t, data |-> [key \in SnapshotKeys(t) |-> SerializeValue(key, t[key])]]

\* the session after the call (updated_at is touched) and the returned dict
serialize_state(s, now) ==
    LET t == TouchUpdatedAt(s, now)
    IN  [s |-> t, data |-> [key \in SnapshotKeys(t) |-> SerializeValue(key, t[key])]]

\* faulty variant: the members of the last government stay strings
RestoreOptionalUuidAsStored(v) == v

\* uuid.UUID(v) if v else None
RestoreOptionalUuid(v) == IF v # None THEN StrToUuid(v) ELSE None

\* one turn of the loop over state_data.items()
DeserializeValue(key, value) ==
    IF key \in UuidFields /\ value # None THEN StrToUuid(value)
    ELSE IF key \in UuidListFields THEN [i \in 1..Len(value) |-> StrToUuid(value[i])]
    ELSE IF key \in {"roles", "votes"}
         THEN [p \in {StrToUuid(k) : k \in DOMAIN value} |->
                  value[CHOOSE k \in DOMAIN value : StrToUuid(k) = p]]
    ELSE IF key = "last_government"
         THEN [k \in DOMAIN value |-> RestoreOptionalUuid(value[k])]
    ELSE IF key \in DatetimeFields THEN FromIsoFormat(value)
    ELSE value

\* faulty variant: the stored mode is taken as it is, whatever it is
deserialize_state_keeping_any_mode(state_data) ==
    [err |-> FALSE,
     s |-> [key \in DOMAIN state_data \cup {"player_connections"} |->
               IF key = "player_connections" THEN <<>>
               ELSE DeserializeValue(key, state_data[key])]]

\* GameMode(value) raises ValueError for a string that is no mode
deserialize_state(state_data) ==
    IF "mode" \in DOMAIN state_data /\ state_data.mode \notin GameModes
    THEN [err |-> TRUE, s |-> NoSession]
    ELSE [err |-> FALSE,
          s |-> [key \in DOMAIN state_data \cup {"player_connections"} |->
                    IF key = "player_connections" THEN <<>>
                    ELSE DeserializeValue(key, state_data[key])]]

\* attributes holding a list
ListFields ==
    UuidListFields \cup
    {"policies", "discard_pile", "liberal_track_bonuses_used",
     "fascist_track_bonuses_used", "communist_track_bonuses_used",
     "policies_drawn_for_legislative", "policies_for_chancellor"}

\* the attributes of s whose list object is put into the dict as it is
\* (serializable_state[key] = value): the lists that are not rebuilt
SharedBySerialize(s) ==
    {key \in SnapshotKeys(s) \cap ListFields :
        ~(key \in UuidListFields /\ Len(s[key]) > 0)}

\* the entries of the dict whose object becomes an attribute of the restored
\* session as it is (setattr(instance, key, value))
SharedByDeserialize(state_data) ==
    {key \in DOMAIN state_data :
        key \in (ListFields \ UuidListFields) \cup {"enacted_policies"}}

NoSnapshot == [none |-> TRUE]

NoAliases == [live |-> {}, restored |-> {}]

\* no list is changed in place
NothingInPlace == [key \in {} |-> <<>>]

\* holder after the objects it shares under the keys of shared got the contents inplace
MutatedInPlace(holder, shared, inplace) ==
    IF shared \cap DOMAIN inplace = {} THEN holder
    ELSE [key \in DOMAIN holder |->
            IF key \in shared \cap DOMAIN inplace THEN inplace[key] ELSE holder[key]]

\* a call on the live session changed the list objects of inplace in place and
\* then bound new objects to the attributes rebound
LiveStep(inplace, rebound) ==
    /\ snapshot' = MutatedInPlace(snapshot, aliases.live, inplace)
    /\ restored' = MutatedInPlace(restored, aliases.live \cap aliases.restored, inplace)
    /\ aliases' = [aliases EXCEPT !.live = @ \ rebound]
    /\ UNCHANGED snapshot0

(***************************************************************************)
(* game_manager.associate_player_sid, on the session it finds              *)
(***************************************************************************)
associate_player_sid(s, player_id, sid) ==
    [s EXCEPT !.player_connections =
        [p \in DOMAIN s.player_connections \cup {player_id} |->
            IF p = player_id THEN sid ELSE s.player_connections[p]]]

(***************************************************************************)
(* The call log: the last call, the session before it and what it gave.    *)
(***************************************************************************)
NoCall ==
    [op |-> "none", err |-> FALSE, pre |-> NoSession, args |-> <<>>,
     drawn |-> <<>>, reshuffles |-> 0, eligible |-> <<>>, event |-> NoEvent]

Logged(op, err, pre, args) ==
    [NoCall EXCEPT !.op = op, !.err = err, !.pre = pre, !.args = args]

\* the player lists offered to the constructor: ids 1..n, ascending or descending
PlayerList(n, order) ==
    IF order = "ascending" THEN [i \in 1..n |-> i] ELSE [i \in 1..n |-> n + 1 - i]

ListOrders == {"ascending", "descending"}

GameId == 1

NoSnapshots ==
    /\ snapshot = NoSnapshot
    /\ snapshot0 = NoSnapshot
    /\ restored = NoSession
    /\ aliases = NoAliases

\* an empty dict
EmptyDict == [key \in {} |-> None]

\* no server is running
NoServer ==
    /\ active_games = EmptyDict
    /\ games_table = EmptyDict
    /\ sio_sessions = EmptyDict
    /\ rooms = {}
    /\ emitted = {}
    /\ tasks = EmptyDict
    /\ lobbies_table = EmptyDict
    /\ closed = EmptyDict

Init ==
    /\ session = NoSession
    /\ hand = <<>>
    /\ last = NoCall
    /\ clock = 0
    /\ shuffles = 0
    /\ NoSnapshots
    /\ NoServer

\* the populations the deck is explored for, on both sides of the XL threshold:
\* the deck depends on the population only through that threshold
DeckListLens == {XLSmallDeckMaxPlayers, XLSmallDeckMaxPlayers + 1}

CreateFrom(lens, modes, orders) ==
    /\ session = NoSession
    /\ \E n \in lens, game_mode \in modes :
         \E order \in orders :
            LET ids == PlayerList(n, order)
                r == GameSessionInit(GameId, ids, game_mode, clock)
            IN  /\ session' = r.s
                /\ last' = Logged("init", r.err, session, <<ids, game_mode>>)
    /\ UNCHANGED <<hand, clock, shuffles, snapshotVars, serverVars>>

Create == CreateFrom(0..MaxListLen, GameModes, ListOrders)

CreateForDeck == CreateFrom(DeckListLens, GameModes, {"descending"})

CreateSmallest == CreateFrom({MinPlayers}, {"Normal"}, {"ascending"})

AssignRoles ==
    /\ session # NoSession
    /\ \E k1 \in ShuffleKeys, k2 \in ShuffleKeys :
         LET r == assign_roles(session, k1, k2, clock)
         IN  /\ session' = r.s
             /\ last' = Logged("assign_roles", r.err, session, <<>>)
             /\ LiveStep(NothingInPlace, IF r.err THEN {} ELSE {"roles"})
    /\ UNCHANGED <<hand, clock, shuffles, serverVars>>

NextRoles == Create \/ AssignRoles

SpecRoles == Init /\ [][NextRoles]_vars

InitializeDeck ==
    /\ session # NoSession
    /\ shuffles < MaxDeckShuffles
    /\ \E k \in ShuffleKeys :
         LET r == initialize_deck(session, k, clock)
         IN  /\ session' = r.s
             /\ last' = Logged("initialize_deck", r.err, session, <<>>)
             /\ hand' = IF r.err THEN hand ELSE <<>>
             /\ shuffles' = IF r.err THEN shuffles ELSE shuffles + 1
             /\ LiveStep(NothingInPlace,
                         IF r.err THEN {} ELSE {"policies", "discard_pile"})
    /\ UNCHANGED <<clock, serverVars>>

\* _reshuffle_deck extends and shuffles the list self.policies in place;
\* draw_policies then binds self.policies to a new list (the slice), and
\* _reshuffle_deck binds self.discard_pile to a new empty list
InPlaceByDraw(s, r, k, now) ==
    IF r.reshuffles = 0 THEN NothingInPlace
    ELSE [key \in {"policies"} |-> reshuffle_deck(s, k, now).s.policies]

ReboundByDraw(r) ==
    IF r.err THEN {}
    ELSE IF r.reshuffles = 0 THEN {"policies"} ELSE {"policies", "discard_pile"}

\* the caller asks for one of counts cards, keeps the returned cards in hand,
\* and holds at most limit cards
DrawWith(counts, limit) ==
    /\ session # NoSession
    /\ \E count \in counts, k \in ShuffleKeys :
         LET r == draw_policies(session, count, k, clock)
         IN  /\ Len(hand) + count <= limit
             /\ shuffles + r.reshuffles <= MaxDeckShuffles
             /\ session' = r.s
             /\ last' = [Logged("draw_policies", r.err, session, <<count>>)
                            EXCEPT !.drawn = r.drawn, !.reshuffles = r.reshuffles]
             /\ hand' = hand \o r.drawn
             /\ shuffles' = shuffles + r.reshuffles
             /\ LiveStep(InPlaceByDraw(session, r, k, clock), ReboundByDraw(r))
    /\ UNCHANGED <<clock, serverVars>>

\* a caller puts the first card of its hand on the discard pile, in place
\* (session.discard_pile.extend)
Discard ==
    /\ session # NoSession
    /\ Len(hand) >= 1
    /\ session' = [session EXCEPT !.discard_pile = Append(@, Head(hand))]
    /\ hand' = Tail(hand)
    /\ last' = Logged("discard", FALSE, session, <<Head(hand)>>)
    /\ LiveStep([key \in {"discard_pile"} |-> Append(session.discard_pile, Head(hand))], {})
    /\ UNCHANGED <<clock, shuffles, serverVars>>

DrawPolicies == DrawWith(1..MaxDrawCount, MaxHand)

\* a caller that asks for the two largest counts and may hold the whole deck
DrawHoarding == DrawWith({MaxDrawCount - 1, MaxDrawCount}, Len(XLLargeDeck))

NextDeck == CreateForDeck \/ InitializeDeck \/ DrawPolicies \/ Discard

SpecDeck == Init /\ [][NextDeck]_vars

\* the deck of one session whose callers hold any number of cards
NextHoard == CreateSmallest \/ InitializeDeck \/ DrawHoarding \/ Discard

SpecHoard == Init /\ [][NextHoard]_vars

(***************************************************************************)
(* Chancellor eligibility as a function of the round state: the sessions   *)
(* it is applied to hold any president, any last government and up to      *)
(* MaxExecuted executed players.                                           *)
(***************************************************************************)
\* the sequences of at most m distinct members of the sequence seq, in its order
SubLists(seq, m) ==
    {SelectSeq(seq, LAMBDA p : p \in S) :
        S \in {T \in SUBSET Range(seq) : Cardinality(T) <= m}}

RoundStates(s) ==
    LET ids == Range(s.players) \cup {None}
    IN  {[s EXCEPT !.president_id = pres,
                   !.last_government = [president |-> lp, chancellor |-> lc],
                   !.executed_players = ex] :
            pres \in ids, lp \in ids, lc \in ids,
            ex \in SubLists(s.players, MaxExecuted)}

InitEligible ==
    /\ \E n \in MinPlayers..MaxEligiblePlayers :
          session \in RoundStates(NewSession(GameId, PlayerList(n, "ascending"), "Normal", 0))
    /\ hand = <<>>
    /\ last = NoCall
    /\ clock = 0
    /\ shuffles = 0
    /\ NoSnapshots
    /\ NoServer

\* the method is called when asked holds
GetEligibleWhen(asked) ==
    /\ session # NoSession
    /\ asked
    /\ last' = [Logged("get_eligible", FALSE, session, <<>>)
                  EXCEPT !.eligible = get_eligible_chancellor_candidates(session)]
    /\ UNCHANGED <<session, hand, clock, shuffles, snapshotVars, serverVars>>

\* it is applied once to each round state
GetEligible == GetEligibleWhen(last.op = "none")

NextEligible == GetEligible

SpecEligible == InitEligible /\ [][NextEligible]_vars

(***************************************************************************)
(* Snapshots: serialize_state and deserialize_state applied to sessions of *)
(* every phase, with and without roles, deck, president, chancellor,       *)
(* votes, executed players and last government, with any sid bindings.     *)
(***************************************************************************)
\* datetime.now() moves on
Tick ==
    /\ clock < MaxClock
    /\ clock' = clock + 1
    /\ UNCHANGED <<session, hand, last, shuffles, snapshotVars, serverVars>>

\* the sessions of a five-player game during its setup by start_game
SetupSessions(game_mode) ==
    LET created == NewSession(GameId, PlayerList(MinPlayers, "ascending"), game_mode, 0)
        with_roles == assign_roles(created, 0, 1, 0).s
        with_deck == initialize_deck(with_roles, 1, 0).s
        started == start_game_flow(with_deck, 0).s
    IN  <<created, with_roles, with_deck, started>>

\* the round states a started session is given: president, nominee and
\* chancellor, ballots, election tracker, last government, executed players
\* and the president's hand
SnapshotRoundStates(s) ==
    LET p == s.players
        ballots(voters) == [v \in voters |-> v % 2 = 1]
    IN  {[s EXCEPT !.president_id = pres[1],
                   !.president_index = pres[2],
                   !.chancellor_candidate_id = term[1],
                   !.chancellor_id = term[2],
                   !.votes = votes,
                   !.election_tracker = Len(ex),
                   !.last_government = [president |-> lg[1], chancellor |-> lg[2]],
                   !.executed_players = ex,
                   !.policies_drawn_for_legislative = Take(s.policies, Len(ex))] :
            pres \in {<<None, None>>, <<p[2], 1>>},
            term \in {<<None, None>>, <<p[3], None>>, <<p[3], p[3]>>},
            votes \in {ballots({}), ballots(Range(p))},
            lg \in {<<None, None>>, <<None, p[5]>>, <<p[4], p[5]>>},
            ex \in {<<>>, <<p[5], p[4]>>}}

SnapshotSessions ==
    {SetupSessions(game_mode)[i] : game_mode \in GameModes, i \in 1..4}
    \cup {[SetupSessions("XL")[4] EXCEPT !.state = phase] : phase \in GamePhases}
    \cup {[s EXCEPT !.state = VOTING] : s \in SnapshotRoundStates(SetupSessions("Normal")[4])}

InitRoundTrip ==
    /\ session \in SnapshotSessions
    /\ hand = <<>>
    /\ last = NoCall
    /\ clock = 0
    /\ shuffles = 0
    /\ NoSnapshots
    /\ NoServer

\* the sids and the players join_game binds
Sids == {"sid1", "sid2"}

AssociatePlayerSid ==
    /\ session # NoSession
    /\ \E player_id \in {session.players[1], session.players[2]}, sid \in Sids :
          /\ session' = associate_player_sid(session, player_id, sid)
          /\ last' = Logged("associate_player_sid", FALSE, session, <<player_id, sid>>)
    /\ UNCHANGED <<hand, clock, shuffles, snapshotVars, serverVars>>

\* the caller keeps the returned dict (kept), or passes it on and keeps no
\* reference to it, as join_game does
SerializeWith(kept) ==
    /\ session # NoSession
    /\ LET r == serialize_state(session, clock)
       IN  /\ session' = r.s
           /\ snapshot' = IF kept THEN r.data ELSE NoSnapshot
           /\ snapshot0' = IF kept THEN r.data ELSE NoSnapshot
           /\ restored' = NoSession
           /\ aliases' = IF kept THEN [live |-> SharedBySerialize(r.s), restored |-> {}]
                         ELSE NoAliases
           /\ last' = Logged("serialize_state", FALSE, session, <<>>)
    /\ UNCHANGED <<hand, clock, shuffles, serverVars>>

SerializeState == SerializeWith(TRUE)

SerializeAndSend == SerializeWith(FALSE)

DeserializeState ==
    /\ snapshot # NoSnapshot
    /\ LET r == deserialize_state(snapshot)
       IN  /\ restored' = r.s
           /\ aliases' = [aliases EXCEPT !.restored =
                              IF r.err THEN {} ELSE SharedByDeserialize(snapshot)]
           /\ last' = Logged("deserialize_state", r.err, session, <<>>)
    /\ UNCHANGED <<session, hand, clock, shuffles, snapshot, snapshot0, serverVars>>

NextRoundTrip == Tick \/ AssociatePlayerSid \/ SerializeState \/ DeserializeState

SpecRoundTrip == InitRoundTrip /\ [][NextRoundTrip]_vars

(***************************************************************************)
(* The life of one session of five players: every method of GameSession is *)
(* called in any order, any number of times.                               *)
(***************************************************************************)
StartGameFlow ==
    /\ session # NoSession
    /\ LET r == start_game_flow(session, clock)
       IN  /\ session' = r.s
           /\ last' = [Logged("start_game_flow", r.err, session, <<>>)
                         EXCEPT !.event = r.event]
    /\ UNCHANGED <<hand, clock, shuffles, snapshotVars, serverVars>>

\* a president draws the whole legislative hand
DrawHand == DrawWith({MaxDrawCount}, MaxHand)

GetEligibleAnytime == GetEligibleWhen(TRUE)

NextSession ==
    \/ CreateSmallest
    \/ AssignRoles
    \/ InitializeDeck
    \/ DrawHand
    \/ Discard
    \/ StartGameFlow
    \/ GetEligibleAnytime
    \/ SerializeAndSend

SpecSession == Init /\ [][NextSession]_vars

(***************************************************************************)
(* The mutating methods applied to a set-up session in every phase (the    *)
(* phases after "nomination" are written to the attribute, as the tests    *)
(* do: no method sets them).                                               *)
(***************************************************************************)
InitPhases ==
    /\ session \in {[SetupSessions("Normal")[4] EXCEPT !.state = phase] : phase \in GamePhases}
    /\ hand = <<>>
    /\ last = NoCall
    /\ clock = 0
    /\ shuffles = 1
    /\ NoSnapshots
    /\ NoServer

NextPhases == AssignRoles \/ InitializeDeck \/ DrawHand \/ Discard \/ StartGameFlow

SpecPhases == InitPhases /\ [][NextPhases]_vars

(***************************************************************************)
(* Snapshots and the deck: a dict returned by serialize_state is kept      *)
(* while the live session, and a session restored from the dict, go on     *)
(* drawing.                                                                *)
(***************************************************************************)
\* draw_policies on the restored session
DrawRestored ==
    /\ restored # NoSession
    /\ \E k \in ShuffleKeys :
         LET r == draw_policies(restored, MaxDrawCount, k, clock)
             inplace == InPlaceByDraw(restored, r, k, clock)
         IN  /\ shuffles + r.reshuffles <= MaxDeckShuffles
             /\ restored' = r.s
             /\ snapshot' = MutatedInPlace(snapshot, aliases.restored, inplace)
             /\ session' = MutatedInPlace(session, aliases.restored \cap aliases.live, inplace)
             /\ aliases' = [aliases EXCEPT !.restored = @ \ ReboundByDraw(r)]
             /\ last' = [Logged("draw_policies_restored", r.err, restored, <<MaxDrawCount>>)
                            EXCEPT !.drawn = r.drawn, !.reshuffles = r.reshuffles]
             /\ shuffles' = shuffles + r.reshuffles
    /\ UNCHANGED <<hand, clock, snapshot0, serverVars>>

\* the caller takes one dict from the live session and keeps it
SerializeOnce == snapshot = NoSnapshot /\ SerializeState

\* the caller restores one session from the dict it keeps
DeserializeOnce == restored = NoSession /\ DeserializeState

\* a caller puts its whole hand on the discard pile, in place
\* (session.discard_pile.extend with a list of cards)
DiscardHand ==
    /\ session # NoSession
    /\ Len(hand) >= 1
    /\ session' = [session EXCEPT !.discard_pile = @ \o hand]
    /\ hand' = <<>>
    /\ last' = Logged("discard", FALSE, session, hand)
    /\ LiveStep([key \in {"discard_pile"} |-> session.discard_pile \o hand], {})
    /\ UNCHANGED <<clock, shuffles, serverVars>>

NextAlias ==
    \/ CreateSmallest
    \/ InitializeDeck
    \/ DrawHand
    \/ DiscardHand
    \/ SerializeOnce
    \/ DeserializeOnce
    \/ DrawRestored

SpecAlias == Init /\ [][NextAlias]_vars

(***************************************************************************)
(* The server: websockets/game_handlers.py (connect, join_game),           *)
(* websockets/game_manager.py and crud/games.py.  A handler is a coroutine: *)
(* it runs alone up to its next database call, where other handlers run.   *)
(***************************************************************************)
\* the game ids of the model: a stored game, a stored game whose state cannot
\* be deserialised, and a game that is not stored
CorruptGameId == 2
MissingGameId == 3
RequestedGameIds == {GameId, CorruptGameId, MissingGameId}

\* the users: two players of the stored games and a user who plays in none
NonPlayer == 9
ServerUsers == {1, 2, NonPlayer}

\* a string that uuid.UUID() rejects, and the test that it accepts one
InvalidUuidStr == StrBase
IsUuidStr(str) == str > StrBase

\* crud_games.create_game: the row of a game
GameRow(game_id, player_ids, initial_state_json) ==
    [game_id |-> UuidToStr(game_id),
     players |-> [i \in 1..Len(player_ids) |-> UuidToStr(player_ids[i])],
     game_state |-> initial_state_json]

\* the rows of the games collection when the server starts: a game in the form
\* create_game writes,
\* and a game whose stored mode is no GameMode
StoredGames ==
    LET started == SetupSessions("Normal")[4]
        stored == serialize_state(started, 0).data
        corrupt == [stored EXCEPT !.game_id = UuidToStr(CorruptGameId), !.mode = "Legacy"]
    IN  [g \in {GameId, CorruptGameId} |->
            GameRow(g, started.players, IF g = GameId THEN stored ELSE corrupt)]

\* crud_games.get_game_players: the list, or None (found is FALSE) when the
\* row is missing or the database call fails
get_game_players(table, db_ok, game_id) ==
    IF db_ok /\ game_id \in DOMAIN table
    THEN [found |-> TRUE,
          players |-> [i \in 1..Len(table[game_id].players) |->
                          StrToUuid(table[game_id].players[i])]]
    ELSE [found |-> FALSE, players |-> <<>>]

\* crud_games.get_game_state_json
get_game_state_json(table, db_ok, game_id) ==
    IF db_ok /\ game_id \in DOMAIN table
    THEN [found |-> TRUE, game_state |-> table[game_id].game_state]
    ELSE [found |-> FALSE, game_state |-> NoSnapshot]

\* game_manager.get_game_session finds a session
InMemory(games, game_id) == game_id \in DOMAIN games

\* game_manager.add_game_session
add_game_session(games, game_session) ==
    [g \in DOMAIN games \cup {game_session.game_id} |->
        IF g = game_session.game_id THEN game_session ELSE games[g]]

\* game_manager.associate_player_sid, on the registry
AssociateIn(games, game_id, player_id, sid) ==
    IF InMemory(games, game_id)
    THEN [games EXCEPT ![game_id] = associate_player_sid(@, player_id, sid)]
    ELSE games

\* sio.emit(event, data, to=sid)
Emit(event, data, sid) == [event |-> event, data |-> data, to |-> sid]

EmitError(message, sid) == Emit("error", [message |-> message], sid)

\* the end of join_game (lines 167-176) for the session registered under the
\* key local: bind the sid in the session registered for game_id, serialise
\* the handler's session and send the whole dict to the sid
JoinGameDelivery(games, local, game_id, user_id, sid, now) ==
    LET bound == AssociateIn(games, game_id, user_id, sid)
        r == serialize_state(bound[local], now)
    IN  [games |-> [bound EXCEPT ![local] = r.s],
         message |-> Emit("game_state", r.data, sid)]

\* _is_authenticated and _get_user_id
IsAuthenticated(sid) == sid \in DOMAIN sio_sessions /\ sio_sessions[sid].authenticated

GetUserId(sid) ==
    IF sid \in DOMAIN sio_sessions /\ IsUuidStr(sio_sessions[sid].user_id)
    THEN StrToUuid(sio_sessions[sid].user_id)
    ELSE None

InitServer ==
    /\ session = NoSession
    /\ hand = <<>>
    /\ last = NoCall
    /\ clock = 0
    /\ shuffles = 0
    /\ NoSnapshots
    /\ active_games = EmptyDict
    /\ games_table = StoredGames
    /\ sio_sessions = EmptyDict
    /\ rooms = {}
    /\ emitted = {}
    /\ tasks = EmptyDict
    /\ lobbies_table = EmptyDict
    /\ closed = EmptyDict

\* connect: a client without a token or with a token that does not verify is
\* refused; otherwise the user id of the token is stored for the sid
Connect ==
    \E sid \in Sids, has_token \in BOOLEAN, valid \in BOOLEAN, user \in ServerUsers :
        /\ sid \notin DOMAIN sio_sessions
        /\ sid \notin DOMAIN closed
        /\ sio_sessions' =
              IF has_token /\ valid
              THEN [s \in DOMAIN sio_sessions \cup {sid} |->
                      IF s = sid THEN [user_id |-> UuidToStr(user), authenticated |-> TRUE]
                      ELSE sio_sessions[s]]
              ELSE sio_sessions
        /\ emitted' = {}
        /\ UNCHANGED <<active_games, games_table, rooms, tasks, lobbies_table, closed,
                       sessionVars, snapshotVars>>

\* the handler of sid ends
Returned(sid) == [s \in DOMAIN tasks \ {sid} |-> tasks[s]]

\* the handler of sid waits for the database at the call pc
Waiting(sid, pc, user_id, game_id) ==
    [s \in DOMAIN tasks \cup {sid} |->
        IF s = sid THEN [pc |-> pc, user_id |-> user_id, game_id |-> game_id]
        ELSE tasks[s]]

\* join_game, lines 110-134: up to the call of get_game_players, for a
\* request that names no game, no uuid, or one of game_ids
JoinGameFor(game_ids) ==
    \E sid \in DOMAIN sio_sessions,
       game_id_str \in {None, InvalidUuidStr} \cup {UuidToStr(g) : g \in game_ids} :
        /\ sid \notin DOMAIN tasks
        /\ LET user_id == GetUserId(sid)
               failed(message) ==
                   /\ emitted' = {EmitError(message, sid)}
                   /\ UNCHANGED tasks
           IN  IF ~IsAuthenticated(sid) THEN failed("Authentication required.")
               ELSE IF game_id_str = None THEN failed("Missing game_id.")
               ELSE IF user_id = None THEN failed("Authentication session error.")
               ELSE IF ~IsUuidStr(game_id_str) THEN failed("Invalid game_id format.")
               ELSE /\ tasks' = Waiting(sid, "get_game_players", user_id, StrToUuid(game_id_str))
                    /\ emitted' = {}
        /\ UNCHANGED <<active_games, games_table, sio_sessions, rooms, lobbies_table, closed,
                       sessionVars, snapshotVars>>

\* faulty variant: the user is not looked up in the player list
JoinGamePlayersOfAnyUser ==
    \E sid \in DOMAIN tasks, db_ok \in BOOLEAN :
        /\ tasks[sid].pc = "get_game_players"
        /\ LET user_id == tasks[sid].user_id
               game_id == tasks[sid].game_id
               game_players == get_game_players(games_table, db_ok, game_id)
           IN  IF ~game_players.found
               THEN /\ emitted' = {EmitError("Game not found.", sid)}
                    /\ tasks' = Returned(sid)
                    /\ UNCHANGED <<active_games, rooms>>
               ELSE /\ rooms' = rooms \cup {<<sid, UuidToStr(game_id)>>}
                    /\ IF InMemory(active_games, game_id)
                       THEN LET d == JoinGameDelivery(active_games, game_id, game_id,
                                                      user_id, sid, clock)
                            IN  /\ active_games' = d.games
                                /\ emitted' = {d.message}
                                /\ tasks' = Returned(sid)
                       ELSE /\ tasks' = Waiting(sid, "get_game_state_json", user_id, game_id)
                            /\ emitted' = {}
                            /\ UNCHANGED active_games
        /\ UNCHANGED <<games_table, sio_sessions, lobbies_table, closed,
                       sessionVars, snapshotVars>>

\* join_game, lines 134-151 (176 when the session is in memory): from the
\* answer of get_game_players to the call of get_game_state_json
JoinGamePlayers ==
    \E sid \in DOMAIN tasks, db_ok \in BOOLEAN :
        /\ tasks[sid].pc = "get_game_players"
        /\ LET user_id == tasks[sid].user_id
               game_id == tasks[sid].game_id
               game_players == get_game_players(games_table, db_ok, game_id)
               failed(message) ==
                   /\ emitted' = {EmitError(message, sid)}
                   /\ tasks' = Returned(sid)
                   /\ UNCHANGED <<active_games, rooms>>
           IN  IF ~game_players.found THEN failed("Game not found.")
               ELSE IF user_id \notin Range(game_players.players)
                    THEN failed("You are not a player in game.")
               ELSE /\ rooms' = rooms \cup {<<sid, UuidToStr(game_id)>>}
                    /\ IF InMemory(active_games, game_id)
                       THEN LET d == JoinGameDelivery(active_games, game_id, game_id,
                                                      user_id, sid, clock)
                            IN  /\ active_games' = d.games
                                /\ emitted' = {d.message}
                                /\ tasks' = Returned(sid)
                       ELSE /\ tasks' = Waiting(sid, "get_game_state_json", user_id, game_id)
                            /\ emitted' = {}
                            /\ UNCHANGED active_games
        /\ UNCHANGED <<games_table, sio_sessions, lobbies_table, closed,
                       sessionVars, snapshotVars>>

\* join_game, lines 151-181: from the answer of get_game_state_json to the end
JoinGameState ==
    \E sid \in DOMAIN tasks, db_ok \in BOOLEAN :
        /\ tasks[sid].pc = "get_game_state_json"
        /\ LET user_id == tasks[sid].user_id
               game_id == tasks[sid].game_id
               game_state_json == get_game_state_json(games_table, db_ok, game_id)
               loaded == deserialize_state(game_state_json.game_state)
               failed(message) ==
                   /\ emitted' = {EmitError(message, sid)}
                   /\ rooms' = rooms \ {<<sid, UuidToStr(game_id)>>}
                   /\ UNCHANGED active_games
           IN  IF ~game_state_json.found THEN failed("Could not load game state (DB fetch failed).")
               ELSE IF loaded.err THEN failed("Error loading game state.")
               ELSE LET d == JoinGameDelivery(add_game_session(active_games, loaded.s),
                                              loaded.s.game_id, game_id, user_id, sid, clock)
                    IN  /\ active_games' = d.games
                        /\ emitted' = {d.message}
                        /\ UNCHANGED rooms
        /\ tasks' = Returned(sid)
        /\ UNCHANGED <<games_table, sio_sessions, lobbies_table, closed,
                       sessionVars, snapshotVars>>

JoinGameBegin == JoinGameFor(RequestedGameIds)

NextServer == Connect \/ JoinGameBegin \/ JoinGamePlayers \/ JoinGameState

SpecServer == InitServer /\ [][NextServer]_vars

(***************************************************************************)
(* Connections: game_manager.remove_player_sid and the disconnect handler, *)
(* with two stored games of the same players.                              *)
(***************************************************************************)
OtherGameId == 4

JoinableGameIds == {GameId, OtherGameId}

\* the rows of two games that start_game stored
StoredGamesOfSamePlayers ==
    LET started == SetupSessions("Normal")[4]
    IN  [g \in JoinableGameIds |->
            GameRow(g, started.players,
                    serialize_state([started EXCEPT !.game_id = g], 0).data)]

\* the pairs <<game_id, player_id>> the loops of remove_player_sid can stop
\* at: the bindings whose sid is sid_to_remove
BindingsOf(games, sid_to_remove) ==
    {gp \in UNION {{<<g, p>> : p \in DOMAIN games[g].player_connections} : g \in DOMAIN games} :
        games[gp[1]].player_connections[gp[2]] = sid_to_remove}

\* del session.player_connections[player_id_found]
DelBinding(games, game_id, player_id) ==
    [games EXCEPT ![game_id].player_connections =
        [p \in DOMAIN @ \ {player_id} |-> @[p]]]

\* faulty variant: the player found is unbound in every game
remove_player_sid_from_every_game(games, sid_to_remove, found) ==
    IF BindingsOf(games, sid_to_remove) = {} THEN games
    ELSE [g \in DOMAIN games |->
            [games[g] EXCEPT !.player_connections =
                [p \in DOMAIN @ \ {found[2]} |-> @[p]]]]

\* game_manager.remove_player_sid: the loops stop at the first binding of the
\* sid in the order of the dicts, found = <<game_id_found, player_id_found>>,
\* delete it and break
remove_player_sid(games, sid_to_remove, found) ==
    IF BindingsOf(games, sid_to_remove) = {} THEN games
    ELSE DelBinding(games, found[1], found[2])

InitConnections ==
    /\ session = NoSession
    /\ hand = <<>>
    /\ last = NoCall
    /\ clock = 0
    /\ shuffles = 0
    /\ NoSnapshots
    /\ active_games = EmptyDict
    /\ games_table = StoredGamesOfSamePlayers
    /\ sio_sessions = EmptyDict
    /\ rooms = {}
    /\ emitted = {}
    /\ tasks = EmptyDict
    /\ lobbies_table = EmptyDict
    /\ closed = EmptyDict

\* disconnect: the handler reads the user id of the session and calls
\* remove_player_sid; the transport then drops the session of the sid and
\* takes the sid out of its rooms.  A sid is not used again, and the
\* disconnect is delivered when no handler of the sid is running.
Disconnect ==
    \E sid \in DOMAIN sio_sessions :
        /\ sid \notin DOMAIN tasks
        /\ \E found \in IF BindingsOf(active_games, sid) = {} THEN {<<None, None>>}
                         ELSE BindingsOf(active_games, sid) :
              active_games' = remove_player_sid(active_games, sid, found)
        /\ closed' = [s \in DOMAIN closed \cup {sid} |->
                        IF s = sid THEN sio_sessions[sid].user_id ELSE closed[s]]
        /\ sio_sessions' = [s \in DOMAIN sio_sessions \ {sid} |-> sio_sessions[s]]
        /\ rooms' = {m \in rooms : m[1] # sid}
        /\ emitted' = {}
        /\ UNCHANGED <<games_table, tasks, lobbies_table, sessionVars, snapshotVars>>

JoinGameJoinable == JoinGameFor(JoinableGameIds)

NextConnections ==
    \/ Connect
    \/ JoinGameJoinable
    \/ JoinGamePlayers
    \/ JoinGameState
    \/ Disconnect

SpecConnections == InitConnections /\ [][NextConnections]_vars

(***************************************************************************)
(* Starting a game: the start_game handler, crud/lobbies.py (get_lobby,    *)
(* update_lobby, update_lobby_status_crud) and crud_games.create_game.     *)
(* Every database call is a point where other handlers run; the call has   *)
(* its effect when the handler goes on.                                    *)
(***************************************************************************)
\* the lobby ids of the model: a lobby of five players, a lobby of two, and
\* a lobby that is not stored; user 1 created both
LobbyId == 1
SmallLobbyId == 2
MissingLobbyId == 3
RequestedLobbyIds == {LobbyId, SmallLobbyId, MissingLobbyId}

\* crud_lobbies.create_lobby and add_player_to_lobby_crud: the row of a
\* lobby that waits for its game
LobbyRow(lobby_id, creator_id, player_ids, game_mode, max_players) ==
    [lobby_id |-> UuidToStr(lobby_id),
     creator_id |-> UuidToStr(creator_id),
     current_players |-> [i \in 1..Len(player_ids) |-> UuidToStr(player_ids[i])],
     status |-> "waiting",
     game_mode |-> game_mode,
     max_players |-> max_players]

\* LobbyBase.max_players: Field(default=10, ge=5, le=15)
DefaultMaxPlayers == 10
LeastMaxPlayers == 5

StoredLobbies ==
    [l \in {LobbyId, SmallLobbyId} |->
        LobbyRow(l, 1, PlayerList(IF l = LobbyId THEN MinPlayers ELSE 2, "ascending"),
                 "Normal", DefaultMaxPlayers)]

\* faulty variant: a LobbyInDB without use_enum_values
UseEnumValuesOff == FALSE

\* model_config of LobbyInDB: use_enum_values
UseEnumValues == TRUE

\* crud_lobbies.get_lobby: LobbyInDB(**lobby_data), or None (found is FALSE)
\* when the row is missing or the database call fails.  With use_enum_values
\* the attribute game_mode holds the value of the enum member, a str, and not
\* the member (game_mode_is_member).
get_lobby(table, db_ok, lobby_id) ==
    IF db_ok /\ lobby_id \in DOMAIN table
    THEN [found |-> TRUE,
          lobby_id |-> StrToUuid(table[lobby_id].lobby_id),
          creator_id |-> StrToUuid(table[lobby_id].creator_id),
          current_players |-> [i \in 1..Len(table[lobby_id].current_players) |->
                                  StrToUuid(table[lobby_id].current_players[i])],
          status |-> table[lobby_id].status,
          game_mode |-> table[lobby_id].game_mode,
          game_mode_is_member |-> ~UseEnumValues,
          max_players |-> table[lobby_id].max_players]
    ELSE [found |-> FALSE, lobby_id |-> None, creator_id |-> None,
          current_players |-> <<>>, status |-> "", game_mode |-> "",
          game_mode_is_member |-> FALSE, max_players |-> 0]

\* crud_lobbies.update_lobby_status_crud (update_lobby with a status only):
\* the table afterwards, and whether a row was updated
update_lobby_status_crud(table, db_ok, lobby_id, status) ==
    IF db_ok /\ lobby_id \in DOMAIN table
    THEN [updated |-> TRUE, table |-> [table EXCEPT ![lobby_id].status = status]]
    ELSE [updated |-> FALSE, table |-> table]

\* crud_games.create_game: mode.value raises AttributeError when mode is a str
\* and not a member of GameMode; the exception, like a failure of the insert,
\* is caught and False is returned
create_game(table, db_ok, game_id, player_ids, initial_state_json, mode, mode_is_member, lobby_id) ==
    IF ~mode_is_member \/ ~db_ok
    THEN [created |-> FALSE, table |-> table]
    ELSE [created |-> TRUE,
          table |-> [g \in DOMAIN table \cup {game_id} |->
                       IF g = game_id
                       THEN [game_id |-> UuidToStr(game_id),
                             players |-> [i \in 1..Len(player_ids) |->
                                             UuidToStr(player_ids[i])],
                             game_state |-> initial_state_json,
                             game_mode |-> mode,
                             status |-> "active",
                             lobby_id |-> UuidToStr(lobby_id)]
                       ELSE table[g]]]

NoRejection == [rejected |-> FALSE, message |-> ""]

Rejection(message) == [rejected |-> TRUE, message |-> message]

\* faulty variant: the caller is not compared with the creator
start_game_rejection_for_any_caller(lobby, user_id) ==
    IF ~lobby.found THEN Rejection("Lobby not found.")
    ELSE IF lobby.status # "waiting"
         THEN Rejection("Lobby is not in a state to be started.")
    ELSE IF ~(MinPlayers <= Len(lobby.current_players)
                /\ Len(lobby.current_players) <= MaxPlayers)
         THEN Rejection("Invalid player count to start the game.")
    ELSE NoRejection

\* start_game, lines 209-223: the checks of the lobby that was fetched
start_game_rejection(lobby, user_id) ==
    IF ~lobby.found THEN Rejection("Lobby not found.")
    ELSE IF lobby.creator_id # user_id
         THEN Rejection("Only the lobby creator can start the game.")
    ELSE IF lobby.status # "waiting"
         THEN Rejection("Lobby is not in a state to be started.")
    ELSE IF ~(MinPlayers <= Len(lobby.current_players)
                /\ Len(lobby.current_players) <= MaxPlayers)
         THEN Rejection("Invalid player count to start the game.")
    ELSE NoRejection

\* the ids uuid.uuid4() can give: those of no stored game and of no handler
NewGameIds == (OtherGameId + 1)..(OtherGameId + MaxGames)

FreshGameIds ==
    {g \in NewGameIds :
        /\ g \notin DOMAIN games_table
        /\ \A s \in DOMAIN tasks : tasks[s].game_id # g}

\* uuid.uuid4(): a new id, the same for every handler that could take it
FreshGameId == CHOOSE g \in FreshGameIds : \A h \in FreshGameIds : g <= h

\* start_game, lines 228-254: the session built from the fetched lobby, set
\* up and serialised; stage names the step that raised.  The players are
\* shuffled by k_order, the roles and the deck by k_setup.
start_game_session(lobby, game_id, k_order, k_setup, now) ==
    LET player_ids_in_order == Shuffle(lobby.current_players, k_order)
        created == GameSessionInit(game_id, player_ids_in_order, lobby.game_mode, now)
        with_roles == assign_roles(created.s, k_setup, k_setup, now)
        with_deck == initialize_deck(with_roles.s, k_setup, now)
        started == start_game_flow(with_deck.s, now)
        stored == serialize_state(started.s, now)
    IN  IF created.err
        THEN [stage |-> "init", s |-> NoSession, data |-> NoSnapshot, event |-> NoEvent]
        ELSE IF with_roles.err \/ with_deck.err \/ started.err
        THEN [stage |-> "setup", s |-> NoSession, data |-> NoSnapshot, event |-> NoEvent]
        ELSE [stage |-> "done", s |-> stored.s, data |-> stored.data,
              event |-> started.event]

\* the handler of sid waits for the database at the call pc of start_game
StartWaiting(sid, pc, user_id, lobby, game_id, game_session, initial_state_json) ==
    [s \in DOMAIN tasks \cup {sid} |->
        IF s = sid
        THEN [pc |-> pc, user_id |-> user_id, game_id |-> game_id, lobby |-> lobby,
              game_session |-> game_session, initial_state_json |-> initial_state_json]
        ELSE tasks[s]]

NoLobby == get_lobby(EmptyDict, FALSE, None)

InitStart ==
    /\ session = NoSession
    /\ hand = <<>>
    /\ last = NoCall
    /\ clock = 0
    /\ shuffles = 0
    /\ NoSnapshots
    /\ active_games = EmptyDict
    /\ games_table = EmptyDict
    /\ sio_sessions = EmptyDict
    /\ rooms = {}
    /\ emitted = {}
    /\ tasks = EmptyDict
    /\ lobbies_table = StoredLobbies
    /\ closed = EmptyDict

\* start_game, lines 185-208: up to the call of get_lobby
StartGameBegin ==
    \E sid \in DOMAIN sio_sessions,
       lobby_id_str \in {None, InvalidUuidStr} \cup {UuidToStr(l) : l \in RequestedLobbyIds} :
        /\ sid \notin DOMAIN tasks
        /\ LET user_id == GetUserId(sid)
               failed(message) ==
                   /\ emitted' = {EmitError(message, sid)}
                   /\ UNCHANGED tasks
           IN  IF ~IsAuthenticated(sid) THEN failed("Authentication required.")
               ELSE IF lobby_id_str = None THEN failed("Missing lobby_id.")
               ELSE IF user_id = None THEN failed("Authentication session error.")
               ELSE IF ~IsUuidStr(lobby_id_str) THEN failed("Invalid lobby_id format.")
               ELSE /\ tasks' = StartWaiting(sid, "get_lobby", user_id,
                                             [NoLobby EXCEPT !.lobby_id = StrToUuid(lobby_id_str)],
                                             None, NoSession, NoSnapshot)
                    /\ emitted' = {}
        /\ UNCHANGED <<active_games, games_table, sio_sessions, rooms, lobbies_table, closed,
                       sessionVars, snapshotVars>>

\* start_game, lines 208-226: from the answer of get_lobby to the call that
\* sets the status "starting"
StartGameLobbyWhen(db_answers) ==
    \E sid \in DOMAIN tasks, db_ok \in db_answers :
        /\ tasks[sid].pc = "get_lobby"
        /\ LET user_id == tasks[sid].user_id
               lobby == get_lobby(lobbies_table, db_ok, tasks[sid].lobby.lobby_id)
               rejection == start_game_rejection(lobby, user_id)
           IN  IF rejection.rejected
               THEN /\ emitted' = {EmitError(rejection.message, sid)}
                    /\ tasks' = Returned(sid)
               ELSE /\ emitted' = {}
                    /\ tasks' = StartWaiting(sid, "update_starting", user_id, lobby,
                                             None, NoSession, NoSnapshot)
        /\ UNCHANGED <<active_games, games_table, sio_sessions, rooms, lobbies_table, closed,
                       sessionVars, snapshotVars>>

\* start_game, lines 226-255: the status is "starting" (if the update went
\* through); the session is built and set up, up to the call of create_game
StartGameStartingWhen(db_answers) ==
    \E sid \in DOMAIN tasks, db_ok \in db_answers,
       k_order \in ShuffleKeys, k_setup \in ShuffleKeys :
        /\ tasks[sid].pc = "update_starting"
        /\ FreshGameIds # {}
        /\ LET user_id == tasks[sid].user_id
               lobby == tasks[sid].lobby
               game_id == FreshGameId
               r == start_game_session(lobby, game_id, k_order, k_setup, clock)
           IN  /\ lobbies_table' =
                     update_lobby_status_crud(lobbies_table, db_ok, lobby.lobby_id,
                                              "starting").table
               /\ IF r.stage = "init"
                  THEN /\ emitted' = {EmitError("Failed to initialize game.", sid)}
                       /\ tasks' = StartWaiting(sid, "update_waiting", user_id, lobby,
                                                game_id, NoSession, NoSnapshot)
                  ELSE IF r.stage = "setup"
                  THEN /\ emitted' = {EmitError("Internal server error during game setup.", sid)}
                       /\ tasks' = StartWaiting(sid, "update_failed", user_id, lobby,
                                                game_id, NoSession, NoSnapshot)
                  ELSE /\ emitted' = {}
                       /\ tasks' = StartWaiting(sid, "create_game", user_id, lobby,
                                                game_id, r.s, r.data)
        /\ UNCHANGED <<active_games, games_table, sio_sessions, rooms, closed,
                       sessionVars, snapshotVars>>

\* start_game, lines 255-306: from the answer of create_game to the call
\* that sets the status "failed" or "active"
StartGameCreatedWhen(db_answers) ==
    \E sid \in DOMAIN tasks, db_ok \in db_answers :
        /\ tasks[sid].pc = "create_game"
        /\ LET task == tasks[sid]
               r == create_game(games_table, db_ok, task.game_id, task.game_session.players,
                                task.initial_state_json, task.game_session.mode,
                                task.lobby.game_mode_is_member, task.lobby.lobby_id)
               sent == serialize_state(task.game_session, clock)
           IN  /\ games_table' = r.table
               /\ IF ~r.created
                  THEN /\ emitted' = {EmitError("Failed to save initial game state to database.", sid)}
                       /\ tasks' = StartWaiting(sid, "update_failed", task.user_id, task.lobby,
                                                task.game_id, NoSession, NoSnapshot)
                       /\ UNCHANGED active_games
                  ELSE /\ active_games' = add_game_session(active_games, sent.s)
                       /\ emitted' = {}
                       /\ tasks' = StartWaiting(sid, "update_active", task.user_id, task.lobby,
                                                task.game_id, NoSession, NoSnapshot)
        /\ UNCHANGED <<sio_sessions, rooms, lobbies_table, closed, sessionVars, snapshotVars>>

\* the status a handler waiting at pc has asked for
StatusAskedAt(pc) ==
    IF pc = "update_waiting" THEN "waiting"
    ELSE IF pc = "update_failed" THEN "failed"
    ELSE "active"

\* start_game: the last update of the status, after which the handler ends
\* (lines 238-239, 250-251, 265-266 or 306-307)
StartGameStatusWhen(db_answers) ==
    \E sid \in DOMAIN tasks, db_ok \in db_answers :
        /\ tasks[sid].pc \in {"update_waiting", "update_failed", "update_active"}
        /\ lobbies_table' =
              update_lobby_status_crud(lobbies_table, db_ok, tasks[sid].lobby.lobby_id,
                                       StatusAskedAt(tasks[sid].pc)).table
        /\ tasks' = Returned(sid)
        /\ emitted' = {}
        /\ UNCHANGED <<active_games, games_table, sio_sessions, rooms, closed,
                       sessionVars, snapshotVars>>

\* the handler steps when a database call may succeed or fail
StartGameLobby == StartGameLobbyWhen(BOOLEAN)

StartGameStarting == StartGameStartingWhen(BOOLEAN)

StartGameCreated == StartGameCreatedWhen(BOOLEAN)

StartGameStatus == StartGameStatusWhen(BOOLEAN)

NextStart ==
    \/ Connect
    \/ StartGameBegin
    \/ StartGameLobby
    \/ StartGameStarting
    \/ StartGameCreated
    \/ StartGameStatus

SpecStart == InitStart /\ [][NextStart]_vars

\* the handler steps when every database operation succeeds
StartGameLobbyOk == StartGameLobbyWhen({TRUE})

StartGameStartingOk == StartGameStartingWhen({TRUE})

StartGameCreatedOk == StartGameCreatedWhen({TRUE})

StartGameStatusOk == StartGameStatusWhen({TRUE})

NextStartOk ==
    \/ Connect
    \/ StartGameBegin
    \/ StartGameLobbyOk
    \/ StartGameStartingOk
    \/ StartGameCreatedOk
    \/ StartGameStatusOk

\* the states in which StartGameStartingOk can be taken
StartGameStartingEnabled ==
    /\ FreshGameIds # {}
    /\ \E sid \in DOMAIN tasks : tasks[sid].pc = "update_starting"

\* The event loop resumes every handler whose database call has returned, so
\* each step of a handler is weakly fair; connections and requests are not.
\* The fairness of StartGameStartingOk is written out with its enabling
\* condition.
SpecStartOk ==
    /\ InitStart
    /\ [][NextStartOk]_vars
    /\ WF_vars(StartGameLobbyOk)
    /\ ([]<>(~StartGameStartingEnabled) \/ []<><<StartGameStartingOk>>_vars)
    /\ WF_vars(StartGameCreatedOk)
    /\ WF_vars(StartGameStatusOk)

(***************************************************************************)
(* Joining and leaving a lobby: the endpoints join_lobby and leave_lobby   *)
(* of api/lobbies.py with add_player_to_lobby_crud,                        *)
(* remove_player_from_lobby_crud and update_lobby of crud/lobbies.py.      *)
(* A request is a coroutine like a handler: tasks holds it under its       *)
(* request id, and emitted holds the response that was sent last.          *)
(***************************************************************************)
\* the requests that can be in flight together, and the users that send them
Requests == {"req1", "req2"}

\* the players of the lobby when the server starts: the creator and those
\* that joined after them
FirstPlayers == <<1, 2, 3, 4>>

\* the users that send requests: the last of the players and two more, one
\* more than the lobby has room for
LobbyUsers == Len(FirstPlayers)..(LeastMaxPlayers + 1)

\* the response of an endpoint: its status code and the detail of the
\* HTTPException, if one was raised
Respond(req, status_code, detail) ==
    Emit("response", [status_code |-> status_code, detail |-> detail], req)

\* crud_lobbies.update_lobby with LobbyUpdate(current_players=...): the table
\* afterwards, and whether a row was updated
update_lobby_players(table, db_ok, lobby_id, new_player_list) ==
    IF db_ok /\ lobby_id \in DOMAIN table
    THEN [updated |-> TRUE,
          table |-> [table EXCEPT ![lobby_id].current_players =
                        [i \in 1..Len(new_player_list) |-> UuidToStr(new_player_list[i])]]]
    ELSE [updated |-> FALSE, table |-> table]

Contains(list, x) == \E i \in 1..Len(list) : list[i] = x

\* [p for p in list if p != x]
Without(list, x) == SelectSeq(list, LAMBDA p : p # x)

\* faulty variant: the lobby is not tested for being full
add_player_decision_ignoring_max(lobby, player_id) ==
    IF ~lobby.found THEN "false"
    ELSE IF Contains(lobby.current_players, player_id) THEN "true"
    ELSE "update"

\* faulty variant: the player is not looked up in the list
add_player_decision_for_anyone(lobby, player_id) ==
    IF ~lobby.found THEN "false"
    ELSE IF Len(lobby.current_players) >= lobby.max_players THEN "false"
    ELSE "update"

\* add_player_to_lobby_crud, lines 98-103: what follows from the lobby that
\* was fetched: return False, return True, or go on to update_lobby
add_player_decision(lobby, player_id) ==
    IF ~lobby.found THEN "false"
    ELSE IF Contains(lobby.current_players, player_id) THEN "true"
    ELSE IF Len(lobby.current_players) >= lobby.max_players THEN "false"
    ELSE "update"

\* the request req waits for the database at the call pc; new_player_list
\* is the argument of update_lobby, and first tells whether the first
\* get_lobby of the request found the user among the players ("in"), found
\* the lobby without the user ("out") or found no lobby ("none")
LobbyWaiting(req, pc, user_id, lobby_id, first, new_player_list) ==
    [r \in DOMAIN tasks \cup {req} |->
        IF r = req
        THEN [pc |-> pc, user_id |-> user_id, lobby_id |-> lobby_id, first |-> first,
              new_player_list |-> new_player_list]
        ELSE tasks[r]]

FirstSeen(lobby, user_id) ==
    IF ~lobby.found THEN "none"
    ELSE IF Contains(lobby.current_players, user_id) THEN "in"
    ELSE "out"

InitLobby ==
    /\ session = NoSession
    /\ hand = <<>>
    /\ last = NoCall
    /\ clock = 0
    /\ shuffles = 0
    /\ NoSnapshots
    /\ active_games = EmptyDict
    /\ games_table = EmptyDict
    /\ sio_sessions = EmptyDict
    /\ rooms = {}
    /\ emitted = {}
    /\ tasks = EmptyDict
    /\ lobbies_table = [l \in {LobbyId} |->
                            LobbyRow(l, 1, FirstPlayers, "Normal", LeastMaxPlayers)]
    /\ closed = EmptyDict

\* what a step of a request leaves alone
LobbyFrame ==
    UNCHANGED <<active_games, games_table, sio_sessions, rooms, closed,
                session, hand, clock, shuffles, snapshotVars>>

\* the request goes on to its next database call
LobbyGoesOn(req, pc, first, new_player_list) ==
    /\ tasks' = LobbyWaiting(req, pc, tasks[req].user_id, tasks[req].lobby_id, first,
                             new_player_list)
    /\ emitted' = {}
    /\ last' = NoCall

\* the endpoint op returns or raises: the response is sent and the request
\* is over; the log keeps the user, the lobby, what the first get_lobby saw
\* and the status code
LobbyResponds(req, op, first, status_code, detail) ==
    /\ tasks' = Returned(req)
    /\ emitted' = {Respond(req, status_code, detail)}
    /\ last' = Logged(op, status_code >= 400, NoSession,
                      <<tasks[req].user_id, tasks[req].lobby_id, first, status_code>>)

\* join_lobby, lines 92-101, and leave_lobby, lines 136-145: up to the first
\* get_lobby, that of add_player_to_lobby_crud or of leave_lobby
LobbyRequestBegin ==
    \E req \in Requests, user_id \in LobbyUsers,
       lobby_id \in {LobbyId, MissingLobbyId}, pc \in {"add_get_lobby", "leave_get_lobby"} :
        /\ req \notin DOMAIN tasks
        /\ tasks' = LobbyWaiting(req, pc, user_id, lobby_id, "", <<>>)
        /\ emitted' = {}
        /\ last' = NoCall
        /\ UNCHANGED lobbies_table
        /\ LobbyFrame

\* add_player_to_lobby_crud, lines 97-107, and join_lobby, lines 103-105 and
\* 120: from the answer of get_lobby to update_lobby, or to the next
\* get_lobby of join_lobby
JoinLobbyFetchedWhen(db_answers) ==
    \E req \in DOMAIN tasks, db_ok \in db_answers :
        /\ tasks[req].pc = "add_get_lobby"
        /\ LET task == tasks[req]
               lobby == get_lobby(lobbies_table, db_ok, task.lobby_id)
               first == FirstSeen(lobby, task.user_id)
               decision == add_player_decision(lobby, task.user_id)
           IN  IF decision = "update"
               THEN LobbyGoesOn(req, "add_update", first,
                                Append(lobby.current_players, task.user_id))
               ELSE LobbyGoesOn(req, IF decision = "true" THEN "join_updated" ELSE "join_why",
                                first, <<>>)
        /\ UNCHANGED lobbies_table
        /\ LobbyFrame

\* add_player_to_lobby_crud, lines 107-108: the answer of update_lobby
JoinLobbyWrittenWhen(db_answers) ==
    \E req \in DOMAIN tasks, db_ok \in db_answers :
        /\ tasks[req].pc = "add_update"
        /\ LET task == tasks[req]
               r == update_lobby_players(lobbies_table, db_ok, task.lobby_id,
                                         task.new_player_list)
           IN  /\ lobbies_table' = r.table
               /\ LobbyGoesOn(req, IF r.updated THEN "join_updated" ELSE "join_why",
                              task.first, <<>>)
        /\ LobbyFrame

\* join_lobby, lines 105-117: why add_player_to_lobby_crud returned False
JoinLobbyWhyWhen(db_answers) ==
    \E req \in DOMAIN tasks, db_ok \in db_answers :
        /\ tasks[req].pc = "join_why"
        /\ LET task == tasks[req]
               lobby == get_lobby(lobbies_table, db_ok, task.lobby_id)
           IN  IF ~lobby.found
               THEN LobbyResponds(req, "join_lobby", task.first, 404, "Lobby not found")
               ELSE IF Len(lobby.current_players) >= lobby.max_players
               THEN LobbyResponds(req, "join_lobby", task.first, 400, "Lobby is full")
               ELSE IF Contains(lobby.current_players, task.user_id)
               THEN LobbyGoesOn(req, "join_updated", task.first, <<>>)
               ELSE LobbyResponds(req, "join_lobby", task.first, 500, "Could not join lobby")
        /\ UNCHANGED lobbies_table
        /\ LobbyFrame

\* join_lobby, lines 120-132: the lobby is fetched again and returned
JoinLobbyDoneWhen(db_answers) ==
    \E req \in DOMAIN tasks, db_ok \in db_answers :
        /\ tasks[req].pc = "join_updated"
        /\ IF get_lobby(lobbies_table, db_ok, tasks[req].lobby_id).found
           THEN LobbyResponds(req, "join_lobby", tasks[req].first, 200, "")
           ELSE LobbyResponds(req, "join_lobby", tasks[req].first, 404,
                              "Lobby not found after join")
        /\ UNCHANGED lobbies_table
        /\ LobbyFrame

\* leave_lobby, lines 145-158: from the answer of get_lobby to the get_lobby
\* of remove_player_from_lobby_crud
LeaveLobbyFetchedWhen(db_answers) ==
    \E req \in DOMAIN tasks, db_ok \in db_answers :
        /\ tasks[req].pc = "leave_get_lobby"
        /\ LET task == tasks[req]
               lobby == get_lobby(lobbies_table, db_ok, task.lobby_id)
               first == FirstSeen(lobby, task.user_id)
           IN  IF ~lobby.found
               THEN LobbyResponds(req, "leave_lobby", first, 404, "Lobby not found")
               ELSE IF ~Contains(lobby.current_players, task.user_id)
               THEN LobbyResponds(req, "leave_lobby", first, 204, "")
               ELSE LobbyGoesOn(req, "remove_get_lobby", first, <<>>)
        /\ UNCHANGED lobbies_table
        /\ LobbyFrame

\* remove_player_from_lobby_crud, lines 118-123, and leave_lobby, lines
\* 160-162: from the answer of get_lobby to update_lobby
LeaveLobbyRemovingWhen(db_answers) ==
    \E req \in DOMAIN tasks, db_ok \in db_answers :
        /\ tasks[req].pc = "remove_get_lobby"
        /\ LET task == tasks[req]
               lobby == get_lobby(lobbies_table, db_ok, task.lobby_id)
           IN  IF ~lobby.found \/ ~Contains(lobby.current_players, task.user_id)
               THEN LobbyResponds(req, "leave_lobby", task.first, 500,
                                  "Could not leave lobby")
               ELSE LobbyGoesOn(req, "remove_update", task.first,
                                Without(lobby.current_players, task.user_id))
        /\ UNCHANGED lobbies_table
        /\ LobbyFrame

\* remove_player_from_lobby_crud, lines 123-124, and leave_lobby, lines
\* 160-164: the answer of update_lobby
LeaveLobbyWrittenWhen(db_answers) ==
    \E req \in DOMAIN tasks, db_ok \in db_answers :
        /\ tasks[req].pc = "remove_update"
        /\ LET task == tasks[req]
               r == update_lobby_players(lobbies_table, db_ok, task.lobby_id,
                                         task.new_player_list)
           IN  /\ lobbies_table' = r.table
               /\ IF r.updated
                  THEN LobbyResponds(req, "leave_lobby", task.first, 204, "")
                  ELSE LobbyResponds(req, "leave_lobby", task.first, 500,
                                     "Could not leave lobby")
        /\ LobbyFrame

\* the steps of the requests when a database call may succeed or fail
NextLobbyWhen(db_answers) ==
    \/ LobbyRequestBegin
    \/ JoinLobbyFetchedWhen(db_answers)
    \/ JoinLobbyWrittenWhen(db_answers)
    \/ JoinLobbyWhyWhen(db_answers)
    \/ JoinLobbyDoneWhen(db_answers)
    \/ LeaveLobbyFetchedWhen(db_answers)
    \/ LeaveLobbyRemovingWhen(db_answers)
    \/ LeaveLobbyWrittenWhen(db_answers)

NextLobby == NextLobbyWhen(BOOLEAN)

SpecLobby == InitLobby /\ [][NextLobby]_vars

\* the steps of the requests when every database operation succeeds
NextLobbyOk == NextLobbyWhen({TRUE})

SpecLobbyOk == InitLobby /\ [][NextLobbyOk]_vars

(***************************************************************************)
(* Properties.                                                             *)
(***************************************************************************)
Called(op) == last.op = op

PlayerCount == Len(session.players)

RoleCount(label) ==
    Cardinality({p \in DOMAIN session.roles : session.roles[p] = label})

PolicyCount(kind) == Count(session.policies, kind)

SumEnacted ==
    session.enacted_policies["Liberal"] + session.enacted_policies["Fascist"]
    + session.enacted_policies["Communist"] + session.enacted_policies["Anarchist"]
    + session.enacted_policies["Anti Fascist"] + session.enacted_policies["Anti Communist"]

\* the fixed number of cards of the session's mode
TotalCards ==
    IF session.mode = "Normal" THEN 17
    ELSE IF PlayerCount <= 9 THEN 23 ELSE 26

DeckInitialized == session # NoSession /\ shuffles >= 1

\* C1: for every population 5..15 and both modes, after assign_roles the roles
\* mapping has exactly one entry per player (its keys are the players, so n
\* entries) and exactly one player is Hitler.
C1_OneRolePerPlayerOneHitler ==
    Called("assign_roles") =>
        /\ PlayerCount \in MinPlayers..MaxPlayers
        /\ DOMAIN session.roles = Range(session.players)
        /\ Cardinality(DOMAIN session.roles) = PlayerCount
        /\ RoleCount("Hitler") = 1

C1_Witness ==
    /\ Called("assign_roles")
    /\ session.mode = "XL"
    /\ PlayerCount = 15
    /\ session.players[1] = 15
    /\ session.roles[15] = "Hitler"

\* C2: in Normal mode, for every n in 5..15, assign_roles gives 1 Hitler,
\* max(1, (n-1) div 2 - 1) Fascists and n - Fascists - 1 Liberals (3, 1, 1 for
\* n = 5) and no other role label.
C2_NormalRoleTable ==
    (Called("assign_roles") /\ session.mode = "Normal") =>
        LET n == PlayerCount
            f == IF ((n - 1) \div 2) - 1 >= 1 THEN ((n - 1) \div 2) - 1 ELSE 1
        IN  /\ RoleCount("Hitler") = 1
            /\ RoleCount("Fascist") = f
            /\ RoleCount("Liberal") = n - f - 1
            /\ \A p \in DOMAIN session.roles :
                  session.roles[p] \in {"Liberal", "Fascist", "Hitler"}
            /\ n = 5 => (RoleCount("Liberal") = 3 /\ RoleCount("Fascist") = 1)

C2_Witness ==
    /\ Called("assign_roles")
    /\ session.mode = "Normal"
    /\ PlayerCount = 5
    /\ RoleCount("Liberal") = 3
    /\ RoleCount("Fascist") = 1
    /\ RoleCount("Hitler") = 1

\* C3: in XL mode, for every n in 5..15, assign_roles gives 1 Hitler,
\* max(1, (n-3) div 3) Fascists, max(1, n div 4) Communists, a Capitalist iff
\* n > 10, an Anarchist iff n > 9, a Monarchist iff n > 12 and Liberals for the
\* rest (4, 2, 2, 1, 1, 0, 1 for n = 11).
C3_XLRoleTable ==
    (Called("assign_roles") /\ session.mode = "XL") =>
        LET n == PlayerCount
            f == IF (n - 3) \div 3 >= 1 THEN (n - 3) \div 3 ELSE 1
            c == IF n \div 4 >= 1 THEN n \div 4 ELSE 1
            cap == IF n > 10 THEN 1 ELSE 0
            ana == IF n > 9 THEN 1 ELSE 0
            mon == IF n > 12 THEN 1 ELSE 0
        IN  /\ RoleCount("Hitler") = 1
            /\ RoleCount("Fascist") = f
            /\ RoleCount("Communist") = c
            /\ RoleCount("Capitalist") = cap
            /\ RoleCount("Anarchist") = ana
            /\ RoleCount("Monarchist") = mon
            /\ RoleCount("Liberal") = n - (f + c + cap + ana + mon + 1)
            /\ n = 11 =>
                  /\ RoleCount("Liberal") = 4
                  /\ RoleCount("Fascist") = 2
                  /\ RoleCount("Communist") = 2
                  /\ RoleCount("Capitalist") = 1
                  /\ RoleCount("Anarchist") = 1
                  /\ RoleCount("Monarchist") = 0

C3_Witness ==
    /\ Called("assign_roles")
    /\ session.mode = "XL"
    /\ PlayerCount = 11
    /\ RoleCount("Liberal") = 4
    /\ RoleCount("Anarchist") = 1
    /\ RoleCount("Capitalist") = 1

\* C4 as stated: in every state reached after initialize_deck by draw_policies
\* calls, |draw pile| + |discard pile| + the enacted counts is the mode's total.
C4_PilesAndEnactedAreTotal ==
    DeckInitialized =>
        Len(session.policies) + Len(session.discard_pile) + SumEnacted = TotalCards

\* C4 amended: in every state reached after initialize_deck by draw_policies
\* calls and by callers discarding cards they drew, |draw pile| + |discard pile|
\* + the enacted counts + the number of cards draw_policies returned that are
\* not yet on the discard pile is the mode's total (17 in Normal mode).
C4_PilesEnactedAndHandAreTotal ==
    DeckInitialized =>
        Len(session.policies) + Len(session.discard_pile) + SumEnacted + Len(hand)
            = TotalCards

C4_Witness ==
    /\ Called("draw_policies")
    /\ last.reshuffles = 1
    /\ last.args[1] = 1
    /\ session.mode = "XL"
    /\ PlayerCount = 9
    /\ Len(hand) = 2
    /\ Len(session.policies) = 21
    /\ session.discard_pile = <<>>

\* C5: draw_policies(n) with |deck| < n and |deck| + |discard| >= n reshuffles
\* exactly once, leaves the discard pile empty, returns exactly n cards and
\* leaves |deck_before| + |discard_before| - n cards in the deck.
C5_ReshuffleOnLowDeck ==
    (/\ Called("draw_policies")
     /\ Len(last.pre.policies) < last.args[1]
     /\ Len(last.pre.policies) + Len(last.pre.discard_pile) >= last.args[1]) =>
        /\ ~last.err
        /\ last.reshuffles = 1
        /\ session.discard_pile = <<>>
        /\ Len(last.drawn) = last.args[1]
        /\ Len(session.policies)
              = Len(last.pre.policies) + Len(last.pre.discard_pile) - last.args[1]

C5_Witness ==
    /\ Called("draw_policies")
    /\ last.args[1] = 3
    /\ Len(last.pre.policies) = 2
    /\ Len(last.pre.discard_pile) = 15
    /\ Len(session.policies) = 14
    /\ Len(last.drawn) = 3
    /\ session.discard_pile = <<>>

\* C6: draw_policies(n) with |deck| + |discard| < n fails with an error and
\* changes neither the draw pile nor the discard pile (contents and order).
C6_FailedDrawChangesNoPile ==
    (/\ Called("draw_policies")
     /\ Len(last.pre.policies) + Len(last.pre.discard_pile) < last.args[1]) =>
        /\ last.err
        /\ session.policies = last.pre.policies
        /\ session.discard_pile = last.pre.discard_pile

C6_Witness ==
    /\ Called("draw_policies")
    /\ last.err
    /\ Len(last.pre.policies) = 1
    /\ Len(last.pre.discard_pile) = 1
    /\ session.policies = last.pre.policies
    /\ session.discard_pile = last.pre.discard_pile

\* C7: draw_policies(n) with |deck| >= n returns the first n tokens of the deck
\* in deck order, leaves the remaining suffix in unchanged order as the deck,
\* does not reshuffle and leaves the discard pile unchanged.
C7_DrawTakesDeckPrefix ==
    (Called("draw_policies") /\ Len(last.pre.policies) >= last.args[1]) =>
        LET n == last.args[1]
            deck == last.pre.policies
        IN  /\ ~last.err
            /\ last.drawn = [i \in 1..n |-> deck[i]]
            /\ session.policies = [i \in 1..(Len(deck) - n) |-> deck[n + i]]
            /\ last.reshuffles = 0
            /\ session.discard_pile = last.pre.discard_pile

C7_Witness ==
    /\ Called("draw_policies")
    /\ ~last.err
    /\ last.reshuffles = 0
    /\ last.drawn = <<"Liberal", "Fascist">>
    /\ session.policies = Repeat("Fascist", 10)
    /\ Len(session.discard_pile) = 4
    /\ session.discard_pile = last.pre.discard_pile

\* C8: after initialize_deck, whatever the piles held before, the discard pile
\* is empty and the draw pile is the mode's multiset: Normal 6 Liberal + 11
\* Fascist; XL up to 9 players 8 Communist + 6 Liberal + 9 Fascist; XL above 9
\* players 1 Anti Fascist + 1 Anti Communist + 7 Communist + 6 Liberal + 9
\* Fascist + 2 Anarchist.
C8_InitializeDeckTable ==
    Called("initialize_deck") =>
        LET table ==
              IF session.mode = "Normal"
              THEN [k \in PolicyKinds |->
                      IF k = "Liberal" THEN 6 ELSE IF k = "Fascist" THEN 11 ELSE 0]
              ELSE IF PlayerCount <= 9
              THEN [k \in PolicyKinds |->
                      IF k = "Communist" THEN 8 ELSE IF k = "Liberal" THEN 6
                      ELSE IF k = "Fascist" THEN 9 ELSE 0]
              ELSE [k \in PolicyKinds |->
                      IF k = "Communist" THEN 7 ELSE IF k = "Liberal" THEN 6
                      ELSE IF k = "Fascist" THEN 9 ELSE IF k = "Anarchist" THEN 2
                      ELSE 1]
        IN  /\ ~last.err
            /\ session.discard_pile = <<>>
            /\ \A k \in PolicyKinds : PolicyCount(k) = table[k]
            /\ Len(session.policies) = TotalCards
            /\ Range(session.policies) \subseteq PolicyKinds

C8_Witness ==
    /\ Called("initialize_deck")
    /\ session.mode = "XL"
    /\ PlayerCount = 10
    /\ Len(last.pre.policies) = 20
    /\ Len(last.pre.discard_pile) = 4
    /\ Len(session.policies) = 26
    /\ session.discard_pile = <<>>

\* C9: creating a GameSession with fewer than 5 or more than 15 players fails
\* and creates no session; with 5..15 players it succeeds with the players in
\* the supplied order, phase "starting", no roles, empty draw and discard
\* piles, election tracker 0, no president and no chancellor.
C9_ConstructorValidatesPopulation ==
    Called("init") =>
        LET ids == last.args[1]
        IN  IF Len(ids) < 5 \/ Len(ids) > 15
            THEN last.err /\ session = NoSession
            ELSE /\ ~last.err
                 /\ session # NoSession
                 /\ session.players = ids
                 /\ session.mode = last.args[2]
                 /\ session.state = "starting"
                 /\ session.status = "starting"
                 /\ DOMAIN session.roles = {}
                 /\ session.policies = <<>>
                 /\ session.discard_pile = <<>>
                 /\ session.election_tracker = 0
                 /\ session.president_id = None
                 /\ session.president_index = None
                 /\ session.chancellor_id = None

C9_Witness ==
    /\ Called("init")
    /\ last.err
    /\ Len(last.args[1]) = 16
    /\ session = NoSession

\* C10: the list returned by get_eligible_chancellor_candidates never contains
\* the sitting president, never contains an executed player, and every
\* identifier in it is (the string of) a member of players.
C10_EligibleExcludesPresidentAndExecuted ==
    Called("get_eligible") =>
        \A i \in 1..Len(last.eligible) :
            LET p == StrToUuid(last.eligible[i])
            IN  /\ last.eligible[i] = UuidToStr(p)
                /\ p \in Range(session.players)
                /\ p # session.president_id
                /\ p \notin Range(session.executed_players)

C10_Witness ==
    /\ Called("get_eligible")
    /\ session.president_id = 2
    /\ session.executed_players = <<1, 4>>
    /\ session.last_government = [president |-> 4, chancellor |-> 5]
    /\ last.eligible = <<UuidToStr(3), UuidToStr(6)>>

\* the players of the session that are not executed
LivingCount == Cardinality(Range(session.players) \ Range(session.executed_players))

EligibleIds == {StrToUuid(last.eligible[i]) : i \in 1..Len(last.eligible)}

\* C11: chancellor eligibility applies the term limit by the count of living
\* players (players not executed): the prior chancellor is always excluded; the
\* prior president is excluded when more than 5 players live, and stays
\* eligible (unless president, prior chancellor or executed) when exactly 5
\* players live, also in a larger game reduced to 5 by executions.
C11_TermLimitByLivingCount ==
    (/\ Called("get_eligible")
     /\ session.president_id # None
     /\ session.president_id \notin Range(session.executed_players)) =>
        LET lp == session.last_government.president
            lc == session.last_government.chancellor
            free(p) == /\ p \in Range(session.players)
                       /\ p \notin Range(session.executed_players)
                       /\ p # session.president_id
        IN  /\ lc # None => lc \notin EligibleIds
            /\ (lp # None /\ LivingCount > 5) => lp \notin EligibleIds
            /\ (lp # None /\ LivingCount = 5 /\ free(lp) /\ lp # lc) => lp \in EligibleIds

\* the attributes of a session that are persisted
PersistentFields == DOMAIN session \ {"player_connections"}

\* C12: for every session g (any phase, with or without president, chancellor,
\* votes, executed players, last government, sid bindings),
\* deserialize_state(serialize_state(g)) is a session with the attributes of g
\* whose persistent attributes all equal those of g (as serialize_state left
\* it) and whose player_connections is empty.
C12_RestoreOfSerializeIsSession ==
    Called("deserialize_state") =>
        /\ ~last.err
        /\ DOMAIN restored = DOMAIN session
        /\ \A key \in PersistentFields : restored[key] = session[key]
        /\ DOMAIN restored.player_connections = {}

C12_Witness ==
    /\ Called("deserialize_state")
    /\ session.state = VOTING
    /\ session.president_id = 2
    /\ session.chancellor_candidate_id = 3
    /\ session.chancellor_id = None
    /\ DOMAIN session.votes = {1, 2, 3, 4, 5}
    /\ session.executed_players = <<5, 4>>
    /\ session.last_government = [president |-> None, chancellor |-> 5]
    /\ DOMAIN session.player_connections = {1, 2}
    /\ session.updated_at = 1
    /\ restored.votes = session.votes
    /\ restored.updated_at = 1

\* C13: the dict returned by serialize_state has no player_connections entry
\* (its keys are exactly the other attributes of the session), whatever
\* bindings the live session holds at that moment.
C13_SnapshotHasNoConnections ==
    Called("serialize_state") =>
        /\ "player_connections" \notin DOMAIN snapshot
        /\ DOMAIN snapshot = DOMAIN session \ {"player_connections"}

C13_Witness ==
    /\ Called("serialize_state")
    /\ session.player_connections = [p \in {1, 2} |-> IF p = 1 THEN "sid2" ELSE "sid1"]
    /\ "player_connections" \notin DOMAIN snapshot
    /\ "roles" \in DOMAIN snapshot

\* C14 as stated: once roles are assigned and the phase is no longer
\* "starting", no operation of the session, a further assign_roles included,
\* changes the roles mapping.
C14_RolesAssignedOnce ==
    [][(/\ session # NoSession
        /\ DOMAIN session.roles # {}
        /\ session.state # STARTING) => session'.roles = session.roles]_vars

\* C15: after creation no GameSession operation (assign_roles,
\* initialize_deck, draw_policies, start_game_flow,
\* get_eligible_chancellor_candidates, serialize_state), failed or not,
\* changes game_id, mode or the players sequence.
C15_IdentityModeAndPlayersAreFixed ==
    [][session # NoSession =>
          /\ session' # NoSession
          /\ session'.game_id = session.game_id
          /\ session'.mode = session.mode
          /\ session'.players = session.players]_vars

C15_Witness ==
    /\ Called("draw_policies")
    /\ last.reshuffles = 1
    /\ session.state = NOMINATION
    /\ DOMAIN session.roles # {}
    /\ session.president_id = session.players[1]
    /\ session.players = <<1, 2, 3, 4, 5>>
    /\ session.mode = "Normal"
    /\ session.game_id = GameId

\* C17 as stated: start_game_flow is accepted only in the "starting" phase;
\* called in any other phase it is rejected and changes neither the president
\* nor the phase.
C17_FirstTermOnlyWhenStarting ==
    (Called("start_game_flow") /\ last.pre.state # STARTING) =>
        /\ last.err
        /\ session.president_index = last.pre.president_index
        /\ session.president_id = last.pre.president_id
        /\ session.state = last.pre.state

MutatingCalls == {"assign_roles", "initialize_deck", "draw_policies", "start_game_flow"}

\* C16 as stated: when the phase is "finished", every mutating call
\* (assign_roles, initialize_deck, draw_policies, start_game_flow) is rejected
\* and leaves the session unchanged.
C16_FinishedRejectsMutation ==
    (last.op \in MutatingCalls /\ last.pre.state = FINISHED) =>
        /\ last.err
        /\ session = last.pre

\* C18 as stated: no message emitted to a sid (in particular the game_state
\* join_game sends) holds the role of a player other than the user of that
\* sid, or a president's policy hand that this user does not hold.
C18_SecretsOnlyToTheirOwner ==
    \A m \in emitted :
        m.event = "game_state" =>
            LET user == UuidToStr(GetUserId(m.to))
            IN  /\ DOMAIN m.data.roles \subseteq {user}
                /\ Len(m.data.policies_drawn_for_legislative) > 0
                      => m.data.president_id = user

\* the method calls on the live session and on a restored session
SessionCalls ==
    {"assign_roles", "initialize_deck", "draw_policies", "start_game_flow",
     "get_eligible", "deserialize_state", "draw_policies_restored"}

\* C19 as stated: a dict returned by serialize_state is a copy: no later method
\* call on the live session (such as a draw_policies that reshuffles) and no
\* method call on a session restored from the dict changes the dict.
C19_SnapshotIsACopy ==
    [][(snapshot # NoSnapshot /\ last'.op \in SessionCalls) => snapshot' = snapshot]_vars

\* C21: start_game_flow fails, leaving phase, president_index and
\* president_id as they were, whenever the roles are unassigned or the draw
\* pile is empty; so the phase is "starting" until assign_roles and
\* initialize_deck have both succeeded.
C21_StartNeedsRolesAndDeck ==
    /\ (Called("start_game_flow")
          /\ (DOMAIN last.pre.roles = {} \/ Len(last.pre.policies) = 0)) =>
            /\ last.err
            /\ session.state = last.pre.state
            /\ session.president_index = last.pre.president_index
            /\ session.president_id = last.pre.president_id
    /\ (session # NoSession /\ session.state # STARTING) =>
            /\ DOMAIN session.roles # {}
            /\ shuffles >= 1

C21_Witness ==
    /\ Called("start_game_flow")
    /\ last.err
    /\ DOMAIN last.pre.roles # {}
    /\ Len(last.pre.policies) = 0
    /\ session.state = STARTING
    /\ session.president_id = None

\* C22: a successful start_game_flow sets president_index to 0, president_id
\* to players[0] and the phase to "nomination", returns an election_started
\* event naming that president and the chancellors now eligible, and leaves
\* roles, draw pile, discard pile, election tracker, last_government and
\* status as they were.
C22_StartSetsFirstPresidentOnly ==
    (Called("start_game_flow") /\ ~last.err) =>
        /\ session.president_index = 0
        /\ session.president_id = session.players[1]
        /\ session.state = NOMINATION
        /\ last.event.event = "election_started"
        /\ last.event.data.president_id = UuidToStr(session.players[1])
        /\ last.event.data.eligible_chancellors
              = get_eligible_chancellor_candidates(session)
        /\ session.roles = last.pre.roles
        /\ session.policies = last.pre.policies
        /\ session.discard_pile = last.pre.discard_pile
        /\ session.election_tracker = last.pre.election_tracker
        /\ session.last_government = last.pre.last_government
        /\ session.status = last.pre.status

C22_Witness ==
    /\ Called("start_game_flow")
    /\ ~last.err
    /\ last.pre.state = STARTING
    /\ session.state = NOMINATION
    /\ session.president_id = 1
    /\ last.event.data.eligible_chancellors
          = <<UuidToStr(2), UuidToStr(3), UuidToStr(4), UuidToStr(5)>>
    /\ Len(session.discard_pile) > 0

\* C25 as stated: after disconnect(sid) no active game session maps any
\* player to that sid, whatever games and players the sid was bound to.
C25_DisconnectUnbindsEverywhere ==
    \A sid \in DOMAIN closed : BindingsOf(active_games, sid) = {}

\* C26: a disconnect never removes a binding whose sid differs from the
\* disconnecting sid: a player who was bound to sid1 and has joined the same
\* game again with sid2 stays bound to sid2 when sid1 disconnects.
C26_DisconnectKeepsOtherSids ==
    [][\A sid \in DOMAIN closed' \ DOMAIN closed :
          \A g \in DOMAIN active_games :
              \A p \in DOMAIN active_games[g].player_connections :
                  active_games[g].player_connections[p] # sid =>
                      /\ g \in DOMAIN active_games'
                      /\ p \in DOMAIN active_games'[g].player_connections
                      /\ active_games'[g].player_connections[p]
                            = active_games[g].player_connections[p]]_vars

C26_Witness ==
    /\ "sid1" \in DOMAIN closed
    /\ closed["sid1"] = UuidToStr(1)
    /\ GameId \in DOMAIN active_games
    /\ 1 \in DOMAIN active_games[GameId].player_connections
    /\ active_games[GameId].player_connections[1] = "sid2"
    /\ GetUserId("sid2") = 1

\* the players of the stored game game_id
StoredPlayers(game_id) ==
    IF game_id \in DOMAIN games_table
    THEN {StrToUuid(games_table[game_id].players[i]) :
             i \in 1..Len(games_table[game_id].players)}
    ELSE {}

\* C23: join_game puts a sid in the room of a game, binds it in the session
\* of the game and sends it game_state only if the user of the sid is in the
\* stored player list of that game; never for a user who is no player of the
\* game or for a game that is not stored.
C23_OnlyPlayersJoin ==
    /\ \A m \in rooms : GetUserId(m[1]) \in StoredPlayers(StrToUuid(m[2]))
    /\ \A g \in DOMAIN active_games :
          \A p \in DOMAIN active_games[g].player_connections :
              /\ p \in StoredPlayers(g)
              /\ active_games[g].player_connections[p] \in DOMAIN sio_sessions
                    => GetUserId(active_games[g].player_connections[p]) = p
    /\ \A m \in emitted :
          m.event = "game_state" =>
              GetUserId(m.to) \in StoredPlayers(StrToUuid(m.data.game_id))

C23_Witness ==
    /\ emitted = {EmitError("You are not a player in game.", "sid2")}
    /\ GetUserId("sid2") = NonPlayer
    /\ "sid2" \notin DOMAIN tasks
    /\ GameId \in DOMAIN active_games
    /\ DOMAIN active_games[GameId].player_connections = {1}
    /\ rooms = {<<"sid1", UuidToStr(GameId)>>}

\* C24: when join_game cannot load the game into memory (the stored state is
\* missing or cannot be deserialised) the sid is taken out of the room of the
\* game again, no session is registered, no sid is bound, no game_state is
\* sent and an error is emitted to that sid only.
C24_FailedLoadLeavesNoTrace ==
    [][\A sid \in DOMAIN tasks :
          (tasks[sid].pc = "get_game_state_json" /\ sid \notin DOMAIN tasks') =>
              LET game_id == tasks[sid].game_id
                  cannot_load ==
                      \/ game_id \notin DOMAIN games_table
                      \/ games_table[game_id].game_state.mode \notin GameModes
                      \/ \E m \in emitted' : m.event = "error"
              IN  cannot_load =>
                      /\ <<sid, UuidToStr(game_id)>> \notin rooms'
                      /\ active_games' = active_games
                      /\ emitted' # {}
                      /\ \A m \in emitted' : m.event = "error" /\ m.to = sid]_vars

C24_Witness ==
    /\ emitted = {EmitError("Error loading game state.", "sid1")}
    /\ "sid1" \notin DOMAIN tasks
    /\ GetUserId("sid1") = 1
    /\ <<"sid1", UuidToStr(CorruptGameId)>> \notin rooms
    /\ CorruptGameId \notin DOMAIN active_games

\* C27 as stated: when two join_game handlers of different players for the
\* same game, which is not in memory, have both completed successfully, the
\* sids of both players are bound in the session registered for the game.
C27_BothJoinersAreBound ==
    \A s1 \in DOMAIN sio_sessions, s2 \in DOMAIN sio_sessions, g \in RequestedGameIds :
        (/\ GetUserId(s1) # GetUserId(s2)
         /\ {<<s1, UuidToStr(g)>>, <<s2, UuidToStr(g)>>} \subseteq rooms
         /\ DOMAIN tasks \cap {s1, s2} = {}) =>
            /\ g \in DOMAIN active_games
            /\ {GetUserId(s1), GetUserId(s2)}
                  \subseteq DOMAIN active_games[g].player_connections
            /\ active_games[g].player_connections[GetUserId(s1)] = s1
            /\ active_games[g].player_connections[GetUserId(s2)] = s2

\* the caller user_id may start the stored lobby lobby_id: it is stored, the
\* caller created it, it is waiting and has 5..15 players
MayStart(lobby_id, user_id) ==
    /\ lobby_id \in DOMAIN lobbies_table
    /\ lobbies_table[lobby_id].creator_id = UuidToStr(user_id)
    /\ lobbies_table[lobby_id].status = "waiting"
    /\ Len(lobbies_table[lobby_id].current_players) \in MinPlayers..MaxPlayers

\* C28: start_game changes nothing (no lobby status, no game record, no
\* registered session) unless the caller is the creator of the lobby, the
\* lobby exists with status "waiting" and has 5..15 players; a rejected
\* request ends with one error emitted to the caller.
C28_RejectedStartChangesNothing ==
    [][\A sid \in DOMAIN tasks :
          (/\ tasks[sid].pc = "get_lobby"
           /\ (sid \in DOMAIN tasks' => tasks'[sid] # tasks[sid])
           /\ ~MayStart(tasks[sid].lobby.lobby_id, tasks[sid].user_id)) =>
              /\ sid \notin DOMAIN tasks'
              /\ lobbies_table' = lobbies_table
              /\ games_table' = games_table
              /\ active_games' = active_games
              /\ \E m \in emitted' : emitted' = {m} /\ m.event = "error" /\ m.to = sid]_vars

C28_Witness ==
    /\ emitted = {EmitError("Only the lobby creator can start the game.", "sid2")}
    /\ GetUserId("sid2") = 2
    /\ "sid2" \notin DOMAIN tasks
    /\ lobbies_table = StoredLobbies
    /\ games_table = EmptyDict
    /\ active_games = EmptyDict

\* the game records and the registered sessions of the lobby lobby_id
GameRecordsOf(lobby_id) ==
    {g \in DOMAIN games_table : games_table[g].lobby_id = UuidToStr(lobby_id)}

SessionsOf(lobby_id) == GameRecordsOf(lobby_id) \cap DOMAIN active_games

C30_StartGameOrder ==
    /\ [](\A g \in DOMAIN active_games : g \in DOMAIN games_table)
    /\ [](\A l \in DOMAIN lobbies_table :
            lobbies_table[l].status = "active" => SessionsOf(l) # {})
    /\ [][\A sid \in DOMAIN tasks :
             (/\ tasks[sid].pc \in {"update_waiting", "update_failed"}
              /\ sid \notin DOMAIN tasks') =>
                 /\ lobbies_table'[tasks[sid].lobby.lobby_id].status
                       = StatusAskedAt(tasks[sid].pc)
                 /\ tasks[sid].game_id \notin DOMAIN active_games']_vars

\* the sessions of a lobby's game that start_game_flow has started
StartedSessions(lobby_id) ==
    {g \in SessionsOf(lobby_id) :
        /\ active_games[g].state = NOMINATION
        /\ active_games[g].president_index = 0
        /\ active_games[g].president_id = active_games[g].players[1]}

\* C31: when the creator's start_game has passed the checks of a waiting
\* lobby of 5..15 players and every database operation succeeds, the handler
\* eventually ends with the lobby "active" and a session of the lobby's
\* players registered in memory, in phase "nomination", whose president is
\* the first player of its order.
C31_StartEndsActive ==
    \A sid \in Sids :
        (sid \in DOMAIN tasks /\ tasks[sid].pc = "update_starting")
            ~> (/\ sid \notin DOMAIN tasks
                /\ lobbies_table[LobbyId].status = "active"
                /\ StartedSessions(LobbyId) # {})

StoredPlayersOf(lobby_id) == lobbies_table[lobby_id].current_players

\* C32: under any interleaving of join and leave requests, a lobby never
\* holds more players than its max_players and never holds a player twice.
C32_LobbyWithinMaxNoDuplicates ==
    \A l \in DOMAIN lobbies_table :
        /\ Len(StoredPlayersOf(l)) <= lobbies_table[l].max_players
        /\ \A i, j \in 1..Len(StoredPlayersOf(l)) :
              StoredPlayersOf(l)[i] = StoredPlayersOf(l)[j] => i = j

\* the lobby is full, a player has joined it, and a join of another user that
\* read the lobby before is about to write its list
C32_Witness ==
    /\ Len(StoredPlayersOf(LobbyId)) = lobbies_table[LobbyId].max_players
    /\ StoredPlayersOf(LobbyId)[LeastMaxPlayers] = UuidToStr(LeastMaxPlayers)
    /\ \E req \in DOMAIN tasks :
          /\ tasks[req].pc = "add_update"
          /\ tasks[req].user_id = LeastMaxPlayers + 1
          /\ tasks[req].lobby_id = LobbyId

\* the step is one of the request req
StepOf(req) == req \notin DOMAIN tasks' \/ tasks'[req] # tasks[req]

\* C33: when every database operation succeeds, a join of a user whom its
\* first get_lobby finds among the players answers 200, a leave of a user
\* whom its get_lobby does not find among the players answers 204, and no
\* step of either request changes the lobby.
C33_JoinLeaveIdempotent ==
    /\ []((Called("join_lobby") /\ last.args[3] = "in") => last.args[4] = 200)
    /\ []((Called("leave_lobby") /\ last.args[3] = "out") => last.args[4] = 204)
    /\ [][\A req \in DOMAIN tasks :
            LET task == tasks[req]
                member == /\ task.lobby_id \in DOMAIN lobbies_table
                          /\ Contains(StoredPlayersOf(task.lobby_id),
                                      UuidToStr(task.user_id))
                absent == /\ task.lobby_id \in DOMAIN lobbies_table
                          /\ ~Contains(StoredPlayersOf(task.lobby_id),
                                       UuidToStr(task.user_id))
            IN  (/\ StepOf(req)
                 /\ \/ task.pc = "add_get_lobby" /\ member
                    \/ task.pc \in {"join_why", "join_updated"} /\ task.first = "in"
                    \/ task.pc = "leave_get_lobby" /\ absent)
                    => lobbies_table' = lobbies_table]_vars

\* a join of a user who was among the players has been answered with 200
C33_Witness ==
    /\ Called("join_lobby")
    /\ last.args[3] = "in"
    /\ last.args[4] = 200

\* the cards of a kind that are in the draw pile, in the discard pile or
\* drawn and not yet put back
CardsOfKind(kind) ==
    Count(session.policies, kind) + Count(session.discard_pile, kind) + Count(hand, kind)

\* C34: after initialize_deck and any sequence of draws, with or without a
\* reshuffle, and of callers putting cards they drew on the discard pile,
\* the draw pile, the discard pile and the drawn cards not yet put back hold
\* together, kind by kind, the cards of the initial deck.
C34_CardsAreConserved ==
    DeckInitialized =>
        \A kind \in PolicyKinds :
            CardsOfKind(kind) = Count(DeckFor(session.mode, PlayerCount), kind)

C34_Witness ==
    /\ Called("draw_policies")
    /\ last.reshuffles = 1
    /\ session.mode = "XL"
    /\ PlayerCount = XLSmallDeckMaxPlayers + 1
    /\ Len(hand) = MaxHand
    /\ Count(hand, "Anarchist") = 2
    /\ session.discard_pile = <<>>

\* C35: for every population 5..15 and both modes assign_roles does not
\* raise: the XL Liberal count is at least 2 and the role counts add up to
\* the population, so neither the "negative liberals" nor the "mismatch"
\* error is raised.
C35_AssignRolesNeverRaises ==
    (/\ Called("assign_roles")
     /\ Len(last.pre.players) \in MinPlayers..MaxPlayers
     /\ last.pre.mode \in GameModes) =>
        LET n == Len(last.pre.players)
        IN  /\ ~last.err
            /\ last.pre.mode = "XL" => XLLiberalCount(n) >= 2
            /\ Len(RolesToAssign(last.pre.mode, n)) = n

C35_Witness ==
    /\ Called("assign_roles")
    /\ ~last.err
    /\ session.mode = "XL"
    /\ PlayerCount = MinPlayers
    /\ XLLiberalCount(PlayerCount) = 2
    /\ RoleCount("Liberal") = 2
    /\ RoleCount("Communist") = 1

\* C36: serialize_state changes nothing in the live session but updated_at:
\* the session has the same attributes after the call, and each of them but
\* updated_at (the bindings of player_connections, the piles, the roles and
\* the phase among them) has the value it had before.
C36_SerializeChangesOnlyUpdatedAt ==
    Called("serialize_state") =>
        /\ DOMAIN session = DOMAIN last.pre
        /\ \A key \in DOMAIN session \ {"updated_at"} : session[key] = last.pre[key]

C36_Witness ==
    /\ Called("serialize_state")
    /\ session.updated_at # last.pre.updated_at
    /\ DOMAIN session.player_connections = {1, 2}
    /\ session.player_connections = last.pre.player_connections
    /\ session.policies # <<>>
    /\ session.policies = last.pre.policies
    /\ session.state = NOMINATION
====
